---- MODULE Spec2Model ----
(***************************************************************************)
(* DOI Generator (src/app.py): the value normalizers, the tract ordering   *)
(* key, the two loaders, the tract-based and the unit-based report         *)
(* builders and the script main() that Streamlit re-runs on every widget   *)
(* interaction.                                                            *)
(*                                                                         *)
(* Text is a sequence of one-character strings, so that strip(), lower(),  *)
(* float(), str(int) and the regular expression of tract_sort_key are      *)
(* computed and not assumed.  A spreadsheet cell is a record               *)
(* [k, s, v]: k = "nan" (empty cell, pandas NaN), k = "str" (text s) or    *)
(* k = "num" (number v).  Numbers are exact fixed-point values counted in  *)
(* units of 1/Scale; a product of two of them is counted in units of       *)
(* 1/(Scale*Scale).  Floating-point rounding is not modelled.              *)
(***************************************************************************)
EXTENDS Integers, Sequences, FiniteSets, TLC

\* The fixed-point unit: 1.0 is Scale.  120 makes 0.6, 0.4, 1/2 and 1/3 exact,
\* and a product, counted in 1/14400, is finer than the tolerance 0.0001.
Scale == 12 * 10
One == Scale
Scale2 == Scale * Scale

(***************************************************************************)
(* Characters and text                                                     *)
(***************************************************************************)

\* The characters the model's texts use, in code-point order.
Alphabet ==
  << " ", "+", "-", ".", "0", "1", "2", "3", "4", "5", "6", "7", "8", "9",
     "A", "B", "C", "D", "E", "F", "I", "L", "M", "N", "O", "P", "R", "S", "T", "U", "W", "X",
     "a", "b", "c", "d", "e", "f", "i", "l", "m", "n", "o", "p", "r", "s", "t", "u", "w", "x" >>

Ord(c) == CHOOSE i \in 1..Len(Alphabet) : Alphabet[i] = c

Digits == <<"0", "1", "2", "3", "4", "5", "6", "7", "8", "9">>

IsDigit(c) == \E i \in 1..10 : Digits[i] = c

DigitVal(c) == (CHOOSE i \in 1..10 : Digits[i] = c) - 1

\* The letters of the alphabet: the 18 upper-case ones follow the 14 signs and
\* digits, and each lower-case one is 18 places after its upper-case one.
UpperLetters == {Alphabet[i] : i \in 15..32}

LowerLetters == {Alphabet[i] : i \in 33..50}

UpperToLower == [c \in UpperLetters |-> Alphabet[Ord(c) + 18]]

LowerToUpper == [c \in LowerLetters |-> Alphabet[Ord(c) - 18]]

\* str.lower()
Lower(s) == [i \in 1..Len(s) |-> IF s[i] \in DOMAIN UpperToLower THEN UpperToLower[s[i]] ELSE s[i]]

\* str.upper()
Upper(s) == [i \in 1..Len(s) |-> IF s[i] \in DOMAIN LowerToUpper THEN LowerToUpper[s[i]] ELSE s[i]]

\* The least and the greatest element of a non-empty set of integers.
Min(S) == CHOOSE i \in S : \A j \in S : i <= j

Max(S) == CHOOSE i \in S : \A j \in S : j <= i

\* s from its first to its last position in idx; '' when idx is empty.
Between(s, idx) == IF idx = {} THEN <<>> ELSE SubSeq(s, Min(idx), Max(idx))

\* str.strip(): leading and trailing blanks removed.
Strip(s) == Between(s, {i \in 1..Len(s) : s[i] # " "})

\* Python's str < str: lexicographic by code point.
RECURSIVE StrLess(_, _)
StrLess(a, b) ==
  IF b = <<>> THEN FALSE
  ELSE IF a = <<>> THEN TRUE
  ELSE IF a[1] # b[1] THEN Ord(a[1]) < Ord(b[1])
  ELSE StrLess(Tail(a), Tail(b))

RECURSIVE DigitsValue(_)
DigitsValue(s) ==
  IF s = <<>> THEN 0 ELSE 10 * DigitsValue(SubSeq(s, 1, Len(s) - 1)) + DigitVal(s[Len(s)])

RECURSIVE Pow10(_)
Pow10(n) == IF n = 0 THEN 1 ELSE 10 * Pow10(n - 1)

AllDigits(s) == \A i \in 1..Len(s) : IsDigit(s[i])

\* float(text): blanks stripped, an optional sign, then 'inf' or 'nan' in any
\* case, or digits with at most one point and at least one digit, with an
\* optional exponent.  ok = FALSE is ValueError.  A finite value is num / den;
\* special is "inf" (num the sign, den 0), "nan" or "none".  (The spelling
\* 'infinity' and underscores are outside the alphabet of the model.)  The
\* steps, innermost first: the parsed value of the digits ip before and fp
\* after the point.
ParsedDigits(ok, ip, fp) ==
  [ok |-> ok,
   num |-> IF ok THEN DigitsValue(ip \o fp) ELSE 0,
   den |-> IF ok THEN Pow10(Len(fp)) ELSE 1,
   special |-> "none"]

ParseParts(one_dot, ip, fp) ==
  ParsedDigits(one_dot /\ AllDigits(ip) /\ AllDigits(fp) /\ Len(ip) + Len(fp) >= 1, ip, fp)

\* body is the mantissa, dots the positions of its points.
ParseDotted(body, dots) ==
  ParseParts(Cardinality(dots) <= 1,
             IF dots = {} THEN body ELSE SubSeq(body, 1, Min(dots) - 1),
             IF dots = {} THEN <<>> ELSE SubSeq(body, Min(dots) + 1, Len(body)))

ParseBody(body) == ParseDotted(body, {i \in 1..Len(body) : body[i] = "."})

\* The largest decimal exponent of a finite float: 1e309 is inf.
MaxExponent == 308

\* The mantissa m scaled by 10^e; a positive mantissa with an exponent above
\* MaxExponent overflows to inf.
Scaled(m, e_ok, e) ==
  IF ~(m.ok /\ e_ok) THEN [ok |-> FALSE, num |-> 0, den |-> 1, special |-> "none"]
  ELSE IF m.num = 0 THEN [ok |-> TRUE, num |-> 0, den |-> 1, special |-> "none"]
  ELSE IF e > MaxExponent THEN [ok |-> TRUE, num |-> 1, den |-> 0, special |-> "inf"]
  ELSE IF e >= 0 THEN [m EXCEPT !.num = m.num * Pow10(e)]
  ELSE [m EXCEPT !.den = m.den * Pow10(0 - e)]

\* The exponent text x: an optional sign and at least one digit.
ExponentOk(x) == x # <<>> /\ AllDigits(x)

ParseExponent(m, negative, x) ==
  Scaled(m, ExponentOk(x), IF ExponentOk(x) THEN (IF negative THEN 0 - DigitsValue(x) ELSE DigitsValue(x)) ELSE 0)

ParseSignedExponent(m, x) ==
  ParseExponent(m, x # <<>> /\ x[1] = "-", IF x # <<>> /\ x[1] \in {"+", "-"} THEN Tail(x) ELSE x)

\* body is the text after the sign, es the positions of its 'e' and 'E'.
ParseWithExponent(body, es) ==
  IF es = {} THEN ParseBody(body)
  ELSE IF Cardinality(es) > 1 THEN [ok |-> FALSE, num |-> 0, den |-> 1, special |-> "none"]
  ELSE ParseSignedExponent(ParseBody(SubSeq(body, 1, Min(es) - 1)),
                           SubSeq(body, Min(es) + 1, Len(body)))

ParseWord(body) ==
  IF Lower(body) = <<"i", "n", "f">> THEN [ok |-> TRUE, num |-> 1, den |-> 0, special |-> "inf"]
  ELSE IF Lower(body) = <<"n", "a", "n">> THEN [ok |-> TRUE, num |-> 0, den |-> 0, special |-> "nan"]
  ELSE ParseWithExponent(body, {i \in 1..Len(body) : body[i] \in {"e", "E"}})

WithSign(negative, p) == [p EXCEPT !.num = IF negative THEN 0 - p.num ELSE p.num]

ParseSigned(t) ==
  WithSign(t # <<>> /\ t[1] = "-",
           ParseWord(IF t # <<>> /\ t[1] \in {"+", "-"} THEN Tail(t) ELSE t))

ParseFloat(s) == ParseSigned(Strip(s))

\* str(n) of a natural number.
RECURSIVE NatToStr(_)
NatToStr(n) == IF n < 10 THEN <<Digits[n + 1]>> ELSE NatToStr(n \div 10) \o <<Digits[(n % 10) + 1]>>

\* str(int)
IntToStr(n) == IF n < 0 THEN <<"-">> \o NatToStr(0 - n) ELSE NatToStr(n)

(***************************************************************************)
(* Cells                                                                   *)
(***************************************************************************)

NaN == [k |-> "nan", s |-> <<>>, v |-> 0]
Str(s) == [k |-> "str", s |-> s, v |-> 0]
Num(v) == [k |-> "num", s |-> <<>>, v |-> v]

\* A cell that is neither text nor a number (a date of the workbook), s being
\* the text str() prints for it; float() of it raises TypeError.
Obj(s) == [k |-> "obj", s |-> s, v |-> 0]

\* pd.isna(val) / val is None
IsNa(c) == c.k = "nan"

\* str(val) of a cell: NaN prints as 'nan'.  Numeric cells of the text columns
\* are given as the text str() prints for them.
PyStr(c) == IF c.k = "nan" THEN <<"n", "a", "n">> ELSE c.s

(***************************************************************************)
(* Value Normalizer                                                        *)
(***************************************************************************)

\* A float that is not finite: as a number of the reports it is the text
\* "inf", "-inf" or "nan", which no arithmetic of the model accepts.
NonFinite(p) == IF p.special = "nan" THEN "nan" ELSE IF p.num < 0 THEN "-inf" ELSE "inf"

\* A float(val) that ignores the default of the call and yields 0 on
\* ValueError.
FloatOrZero(p, default) ==
  IF ~p.ok THEN 0
  ELSE IF p.special # "none" THEN NonFinite(p)
  ELSE (p.num * Scale) \div p.den

\* float(val) or the default on ValueError, in units of 1/Scale.
FloatOrDefault(p, default) ==
  IF ~p.ok THEN default
  ELSE IF p.special # "none" THEN NonFinite(p)
  ELSE (p.num * Scale) \div p.den

\* The text branch of safe_float, t the stripped text.
FloatOfText(t, default) ==
  IF t = <<>> THEN default ELSE FloatOrDefault(ParseFloat(t), default)

\* safe_float(val, default): the default for a missing, blank or unparseable
\* value and for a value float() does not take, else the number, in units of
\* 1/Scale.
safe_float(val, default) ==
  IF IsNa(val) THEN default
  ELSE IF val.k = "str" THEN FloatOfText(Strip(val.s), default)
  ELSE IF val.k = "num" THEN val.v
  ELSE default

\* The try block of normalize_tract, p being float(val_str): int(inf) raises
\* OverflowError, which the except clause does not name; int(nan) raises
\* ValueError, which it does.
NormalizeOutcome(val_str, p) ==
  [raised |-> p.ok /\ p.special = "inf",
   text |-> IF p.ok /\ p.special = "none" /\ p.num % p.den = 0
            THEN IntToStr(p.num \div p.den) ELSE val_str]

NormalizeText(val_str) == NormalizeOutcome(val_str, ParseFloat(val_str))

\* Whether normalize_tract(val) raises.
normalize_tract_raises(val) == ~IsNa(val) /\ NormalizeText(Strip(PyStr(val))).raised

\* normalize_tract(val), when it returns: '' for a missing value, the
\* integer's decimal text for a text that parses as a whole number, else the
\* stripped text.
normalize_tract(val) == IF IsNa(val) THEN <<>> ELSE NormalizeText(Strip(PyStr(val))).text

(***************************************************************************)
(* Tract Ordering Policy                                                   *)
(***************************************************************************)

\* The number of trailing digits of s: what (\d+)$ takes after the lazy (.*?).
RECURSIVE TrailingDigits(_)
TrailingDigits(s) ==
  IF s = <<>> \/ ~IsDigit(s[Len(s)]) THEN 0 ELSE 1 + TrailingDigits(SubSeq(s, 1, Len(s) - 1))

\* The key of tract_sort_key, p being float(tract_str) and n the number of
\* trailing digits.  The tuple is the record [cls, num, den, nan, pre, suf]; a
\* number is num / den (inf is 1/0), nan says that it is float('nan').
SortKeyOf(tract, p, n) ==
  IF p.ok THEN [cls |-> 0, num |-> p.num, den |-> p.den, nan |-> p.special = "nan",
                pre |-> <<>>, suf |-> 0]
  ELSE IF n > 0
       THEN [cls |-> 1, num |-> 0, den |-> 1, nan |-> FALSE,
             pre |-> Lower(SubSeq(tract, 1, Len(tract) - n)),
             suf |-> DigitsValue(SubSeq(tract, Len(tract) - n + 1, Len(tract)))]
  ELSE [cls |-> 1, num |-> 0, den |-> 1, nan |-> FALSE, pre |-> Lower(tract), suf |-> 0]

\* tract_sort_key(tract): (0, num, '') for a pure number, (1, prefix.lower(),
\* suffix) for a text with trailing digits, (1, text.lower(), 0) otherwise.
tract_sort_key(tract) == SortKeyOf(tract, ParseFloat(tract), TrailingDigits(tract))

\* A comparison of sort keys that ignores the magnitude of a number.
KeyLessNoMagnitude(a, b) ==
  \/ a.cls < b.cls
  \/ /\ a.cls = b.cls
     /\ \/ StrLess(a.pre, b.pre)
        \/ a.pre = b.pre /\ a.suf < b.suf

\* Python's tuple comparison a < b of two sort keys; every comparison with
\* nan is false.
KeyLess(a, b) ==
  \/ a.cls < b.cls
  \/ /\ a.cls = b.cls
     /\ IF a.cls = 0
        THEN ~a.nan /\ ~b.nan /\ a.num * b.den < b.num * a.den
        ELSE \/ StrLess(a.pre, b.pre)
             \/ a.pre = b.pre /\ a.suf < b.suf

\* One step of the stable sort: x goes before the first element whose key is
\* greater than its own.
RECURSIVE InsertTract(_, _)
InsertTract(x, sorted) ==
  IF sorted = <<>> THEN <<x>>
  ELSE IF KeyLess(tract_sort_key(x), tract_sort_key(sorted[1])) THEN <<x>> \o sorted
  ELSE <<sorted[1]>> \o InsertTract(x, Tail(sorted))

\* sorted(tracts, key=tract_sort_key): Python's sort is stable.
RECURSIVE SortedTracts(_)
SortedTracts(tracts) ==
  IF tracts = <<>> THEN <<>>
  ELSE InsertTract(tracts[Len(tracts)], SortedTracts(SubSeq(tracts, 1, Len(tracts) - 1)))

\* x appended to u unless u has it.
AppendNew(u, x) == IF \E i \in 1..Len(u) : u[i] = x THEN u ELSE Append(u, x)

\* Series.unique(): the distinct values in order of first appearance.
RECURSIVE Unique(_)
Unique(seq) ==
  IF seq = <<>> THEN <<>>
  ELSE AppendNew(Unique(SubSeq(seq, 1, Len(seq) - 1)), seq[Len(seq)])

RECURSIVE SumSeq(_)
SumSeq(s) == IF s = <<>> THEN 0 ELSE s[1] + SumSeq(Tail(s))

(***************************************************************************)
(* Data frames                                                             *)
(***************************************************************************)

\* Texts the code compares with.
T_MI == <<"M", "I">>
T_NPRI == <<"N", "P", "R", "I">>
T_ORI == <<"O", "R", "I">>
T_WI == <<"W", "I">>
T_none_dot == <<"n", "o", "n", "e", ".">>
T_none == <<"n", "o", "n", "e">>
T_nan == <<"n", "a", "n">>
T_tract == <<"t", "r", "a", "c", "t">>
T_TOTAL_UNIT_ACRES ==
  <<"T", "O", "T", "A", "L", " ", "U", "N", "I", "T", " ", "A", "C", "R", "E", "S">>
T_default == <<"d", "e", "f", "a", "u", "l", "t">>

\* row.get(col, default): a row is a function from the frame's column names
\* to cells.
Get(row, col, default) == IF col \in DOMAIN row THEN row[col] ELSE default

\* Python's truth value of a cell: '' and 0 are false, NaN is true.
Truthy(c) ==
  CASE c.k = "nan" -> TRUE
    [] c.k = "str" -> c.s # <<>>
    [] c.k = "num" -> c.v # 0
    [] OTHER -> TRUE

\* str(cell or '').strip()
TextOfCell(c) == IF Truthy(c) THEN Strip(PyStr(c)) ELSE <<>>

\* str(row.get(col, '') or '').strip()
TextOf(row, col) == TextOfCell(Get(row, col, Str(<<>>)))

\* df['TYPE'] == type_code
IsType(row, type_code) == row["TYPE"].k = "str" /\ row["TYPE"].s = type_code

\* df['OWNER'].astype(str).str.lower().str.strip()
OwnerKey(row) == Strip(Lower(PyStr(row["OWNER"])))

\* safe_float(row.get('TRACT NRI', 0))
TractNri(row) == safe_float(Get(row, "TRACT NRI", Num(0)), 0)

\* The frame that stands for "no frame" (None).
NoFrame == [loaded |-> FALSE, rows |-> <<>>]

NoError == [kind |-> "none", missing |-> {}]

(***************************************************************************)
(* Ownership Dataset Loader                                                *)
(***************************************************************************)

required_cols == {"OWNER", "TYPE", "TRACT"}

\* df['TRACT'] = df['TRACT'].apply(normalize_tract)
NormalizeTracts(rows) ==
  [i \in 1..Len(rows) |-> [rows[i] EXCEPT !["TRACT"] = Str(normalize_tract(rows[i]["TRACT"]))]]

\* A loader that keeps the rows whose tract is empty.
DropNothing(rows) == rows

\* df = df[df['TRACT'] != '']
DropEmptyTracts(rows) == SelectSeq(rows, LAMBDA r : r["TRACT"].s # <<>>)

\* Whether normalize_tract raises on some row of the sheet.
NormalizeTractsRaises(rows) == \E i \in 1..Len(rows) : normalize_tract_raises(rows[i]["TRACT"])

\* The return of load_combined_data, missing being the required columns the
\* sheet lacks.  An exception of the try block is the 'Error loading file'
\* return.
LoadResult(uploaded_file, missing) ==
  IF missing # {}
  THEN [df |-> NoFrame, error |-> [kind |-> "missing_columns", missing |-> missing]]
  ELSE IF NormalizeTractsRaises(uploaded_file.rows)
  THEN [df |-> NoFrame, error |-> [kind |-> "exception", missing |-> {}]]
  ELSE [df |-> [loaded |-> TRUE, rows |-> DropEmptyTracts(NormalizeTracts(uploaded_file.rows))],
        error |-> NoError]

\* load_combined_data(uploaded_file): (df, error).  The file is the sheet the
\* code settles on: its column names and its rows.
load_combined_data(uploaded_file) ==
  LoadResult(uploaded_file, {col \in required_cols : col \notin uploaded_file.cols})

(***************************************************************************)
(* Allocation Table Loader                                                 *)
(***************************************************************************)

NoAllocations == [loaded |-> FALSE, keys |-> <<>>, tab |-> <<>>]

\* Whether the first cell of a row is 'tract'.
IsTractHeader(row) == Lower(Strip(PyStr(row[1]))) = T_tract

\* The index of the first row whose first cell is 'tract', or 0.
FirstOrZero(hits) == IF hits = {} THEN 0 ELSE Min(hits)

TractStart(rows) == FirstOrZero({i \in 1..Len(rows) : IsTractHeader(rows[i])})

\* A loop that also breaks at a first cell of blanks.
IsTerminatorOrBlank(row) ==
  IsNa(row[1]) \/ Strip(PyStr(row[1])) = <<>> \/ Upper(Strip(PyStr(row[1]))) = T_TOTAL_UNIT_ACRES

\* Whether the loop over the allocation region breaks at this row.
IsTerminator(row) ==
  IsNa(row[1]) \/ Upper(Strip(PyStr(row[1]))) = T_TOTAL_UNIT_ACRES

\* The entry a row of the region gives its tract.
AllocationEntry(row) ==
  [allocation |-> safe_float(row[4], 0),
   acres |-> safe_float(row[3], 0),
   legal_description |-> IF IsNa(row[2]) THEN <<>> ELSE PyStr(row[2])]

\* allocations[tract_key] = entry, skipped for an empty key; keys is the
\* dict's insertion order.
PutAllocation(allocations, tract_key, entry) ==
  IF tract_key = <<>> THEN allocations
  ELSE [loaded |-> TRUE,
        keys |-> AppendNew(allocations.keys, tract_key),
        tab |-> [t \in (DOMAIN allocations.tab) \cup {tract_key} |->
                   IF t = tract_key THEN entry ELSE allocations.tab[t]]]

\* The loop of load_tract_allocations from row i on.
RECURSIVE ReadAllocations(_, _, _)
ReadAllocations(rows, i, allocations) ==
  IF i > Len(rows) \/ IsTerminator(rows[i]) THEN allocations
  ELSE ReadAllocations(rows, i + 1,
         PutAllocation(allocations, normalize_tract(rows[i][1]), AllocationEntry(rows[i])))

\* Whether the loop from row i on reaches a row on which normalize_tract
\* raises.
RECURSIVE ReadRaises(_, _)
ReadRaises(rows, i) ==
  IF i > Len(rows) \/ IsTerminator(rows[i]) THEN FALSE
  ELSE normalize_tract_raises(rows[i][1]) \/ ReadRaises(rows, i + 1)

\* A loader that returns the table it read even when it is empty.
AllocationsResultAny(allocations) ==
  [allocations |-> [allocations EXCEPT !.loaded = TRUE], error |-> NoError]

\* The return of load_tract_allocations once the region is read.
AllocationsResult(allocations) ==
  IF allocations.keys = <<>>
  THEN [allocations |-> NoAllocations, error |-> [kind |-> "no_allocations", missing |-> {}]]
  ELSE [allocations |-> allocations, error |-> NoError]

\* An exception of the try block is the 'Error loading tract allocations'
\* return.
LoadAllocationsFrom(rows, tract_start) ==
  IF tract_start = 0
  THEN [allocations |-> NoAllocations, error |-> [kind |-> "no_tract_header", missing |-> {}]]
  ELSE IF ReadRaises(rows, tract_start + 1)
  THEN [allocations |-> NoAllocations, error |-> [kind |-> "exception", missing |-> {}]]
  ELSE AllocationsResult(ReadAllocations(rows, tract_start + 1, NoAllocations))

\* load_tract_allocations(uploaded_file): (allocations, error).
load_tract_allocations(uploaded_file) ==
  LoadAllocationsFrom(uploaded_file.rows, TractStart(uploaded_file.rows))

(***************************************************************************)
(* Shared pieces of the two report builders                                *)
(***************************************************************************)

\* interest_types: (type_code, sheet_name) in sheet order.
interest_types ==
  << [type_code |-> T_MI, sheet_name |-> "LORI"],
     [type_code |-> T_NPRI, sheet_name |-> "NPRI"],
     [type_code |-> T_ORI, sheet_name |-> "ORI"],
     [type_code |-> T_WI, sheet_name |-> "WI"] >>

\* A category-sheet filter that forgets the empty owner cell ('nan').
SheetPlaceholdersNoNan == {T_none_dot, T_none, <<>>}

\* The owner texts a category sheet leaves out.
SheetPlaceholders == {T_none_dot, T_none, T_nan, <<>>}

\* The owner texts the NPRI column of a Unit Recap leaves out.
RecapPlaceholders == {T_none_dot, T_none}

\* The owner texts the loop over the owners of a unit-based sheet skips.
LoopPlaceholders == {T_none_dot, T_none, <<>>}

\* type_df: the rows of one type whose owner is not a placeholder.
TypeFrame(rows, type_code) ==
  SelectSeq(rows, LAMBDA r : IsType(r, type_code) /\ OwnerKey(r) \notin SheetPlaceholders)

\* df['TRACT'] as a list of texts.
TractColumn(rows) == [i \in 1..Len(rows) |-> rows[i]["TRACT"].s]

\* df[df['TRACT'] == tract]
RowsOfTract(rows, tract) == SelectSeq(rows, LAMBDA r : r["TRACT"].s = tract)

\* The dict a burden lookup keeps for one tract: fn is the mapping, and
\* the key 'default' is held like any other key.
EmptyDict == [has |-> {}, fn |-> <<>>]

DictSet(d, key, val) ==
  [has |-> d.has \cup {key},
   fn |-> [x \in d.has \cup {key} |-> IF x = key THEN val ELSE d.fn[x]]]

DictGet(d, key, default) == IF key \in d.has THEN d.fn[key] ELSE default

\* if 'default' not in lori_lookup[tract]: lori_lookup[tract]['default'] = lori
PutDefault(d, lori) == IF T_default \notin d.has THEN DictSet(d, T_default, lori) ELSE d

\* The body of the loop over one tract's MI rows.
PutLori(d, lease, lori) ==
  PutDefault(IF lease # <<>> THEN DictSet(d, lease, lori) ELSE d, lori)

\* The loop over one tract's MI rows that fills lori_lookup[tract].
RECURSIVE FillLori(_, _)
FillLori(tract_mi, d) ==
  IF tract_mi = <<>> THEN d
  ELSE FillLori(Tail(tract_mi),
         PutLori(d, TextOf(tract_mi[1], "LEASE NO."),
                 safe_float(Get(tract_mi[1], "LEASE ROYALTY", Num(0)), 0)))

LoriOfMi(mi_df) ==
  [t \in {mi_df[i]["TRACT"].s : i \in 1..Len(mi_df)} |-> FillLori(RowsOfTract(mi_df, t), EmptyDict)]

\* lori_lookup: for every tract with an MI row, the dict of its lease rates.
BuildLoriLookup(rows) == LoriOfMi(SelectSeq(rows, LAMBDA r : IsType(r, T_MI)))

\* if lease_no == 'nan': lease_no = ''
NanToEmpty(lease_no) == IF lease_no = T_nan THEN <<>> ELSE lease_no

\* The lease text a data row shows.
LeaseNo(row) == NanToEmpty(TextOf(row, "LEASE NO."))

\* tract_lori.get(lease_no, tract_lori.get('default', 0))
LoriFrom(tract_lori, lease_no) == DictGet(tract_lori, lease_no, DictGet(tract_lori, T_default, 0))

\* lori_lookup.get(tract, {}) and the lookup in it.
LoriVal(lori_lookup, tract, lease_no) ==
  LoriFrom(IF tract \in DOMAIN lori_lookup THEN lori_lookup[tract] ELSE EmptyDict, lease_no)

\* One step of a stable sort of rows by the text of a column.
RECURSIVE InsertByText(_, _, _)
InsertByText(x, sorted, col) ==
  IF sorted = <<>> THEN <<x>>
  ELSE IF StrLess(x[col].s, sorted[1][col].s) THEN <<x>> \o sorted
  ELSE <<sorted[1]>> \o InsertByText(x, Tail(sorted), col)

\* A sort_values that leaves the rows as they are.
KeepOrder(rows, col) == rows

\* df.sort_values(col) on a text column without missing values: code-point
\* order, rows with equal text kept in their order.
RECURSIVE SortValues(_, _)
SortValues(rows, col) ==
  IF rows = <<>> THEN <<>>
  ELSE InsertByText(rows[Len(rows)], SortValues(SubSeq(rows, 1, Len(rows) - 1), col), col)

\* sum(safe_float(r.get('TRACT NRI', 0)) * factor for r in sel)
SumNri(sel, factor) == SumSeq([i \in 1..Len(sel) |-> TractNri(sel[i]) * factor])

\* The sum of TRACT NRI times a factor over the rows of one type and tract, as
\* a Unit Recap computes it (only NPRI looks at the owner).
RecapSum(rows, type_code, tract, factor) ==
  SumNri(SelectSeq(rows, LAMBDA r :
                 /\ IsType(r, type_code)
                 /\ r["TRACT"].s = tract
                 /\ (type_code = T_NPRI => OwnerKey(r) \notin RecapPlaceholders)),
         factor)

\* values = [tract, lori_nri, npri_nri, ori_nri, wi_nri, total_nri]
RecapValues(tract, lori_nri, npri_nri, ori_nri, wi_nri) ==
  [tract |-> tract, MI |-> lori_nri, NPRI |-> npri_nri, ORI |-> ori_nri, WI |-> wi_nri,
   total_nri |-> lori_nri + npri_nri + ori_nri + wi_nri]

\* One row of a Unit Recap sheet.
RecapRow(rows, tract, factor) ==
  RecapValues(tract,
              RecapSum(rows, T_MI, tract, factor),
              RecapSum(rows, T_NPRI, tract, factor),
              RecapSum(rows, T_ORI, tract, factor),
              RecapSum(rows, T_WI, tract, factor))

\* totals[c] after the loop over the tracts.
ColumnTotal(recap, c) == SumSeq([i \in 1..Len(recap) |-> recap[i][c]])

TotalValues(mi, npri, ori, wi) ==
  [MI |-> mi, NPRI |-> npri, ORI |-> ori, WI |-> wi, total_all |-> mi + npri + ori + wi]

\* The TOTAL row of a Unit Recap sheet: the column sums and total_all.
RecapTotals(recap) ==
  TotalValues(ColumnTotal(recap, "MI"), ColumnTotal(recap, "NPRI"),
              ColumnTotal(recap, "ORI"), ColumnTotal(recap, "WI"))

NoWorkbook ==
  [made |-> FALSE, kind |-> "none", tract_list |-> <<>>, sheets |-> <<>>, recap |-> <<>>,
   totals |-> [MI |-> 0, NPRI |-> 0, ORI |-> 0, WI |-> 0, total_all |-> 0]]

\* The workbook a builder returns.
Workbook(kind, tract_list, sheets, recap) ==
  [made |-> TRUE, kind |-> kind, tract_list |-> tract_list, sheets |-> sheets,
   recap |-> recap, totals |-> RecapTotals(recap)]

\* The three operands a data row shows before its TRACT NRI (the WI row's
\* constant 1 apart).
Operands(row, type_code, lori_val) ==
  IF type_code = T_MI
  THEN << safe_float(Get(row, "DECIMAL INTEREST", Num(0)), 0),
          safe_float(Get(row, "LEASE ROYALTY", Num(0)), 0),
          safe_float(Get(row, "NPRI BURDENS", Num(0)), 0) >>
  ELSE IF type_code = T_NPRI
  THEN << safe_float(Get(row, "NPRI", Get(row, "DECIMAL INTEREST", Num(0))), 0),
          safe_float(Get(row, "INTEREST BURDENED", Num(0)), 0),
          safe_float(Get(row, "SHARE OF NPRI", Num(0)), 0) >>
  ELSE IF type_code = T_ORI
  THEN << safe_float(Get(row, "ORI", Get(row, "DECIMAL INTEREST", Num(0))), 0),
          safe_float(Get(row, "SHARE OF ORI", Num(0)), 0),
          safe_float(Get(row, "INTEREST BURDENED", Num(0)), 0) >>
  ELSE << lori_val,
          safe_float(Get(row, "ORI BURDENS", Num(0)), 0),
          safe_float(Get(row, "WI (TRACT)",
                         Num(safe_float(Get(row, "DECIMAL INTEREST", Num(0)), 0))), 0) >>

\* The values of one data row of a category sheet.  unit_nri is a product, in
\* units of 1/(Scale*Scale); it is 0 in the tract-based report.  lori_val is
\* in units of 1/Scale.
DataRow(row, type_code, owner, tract, lease_no, allocation, lori_lookup) ==
  [owner |-> owner,
   tract |-> tract,
   lease_no |-> lease_no,
   tract_nri |-> TractNri(row),
   mi_val |-> IF type_code = T_MI
              THEN safe_float(Get(row, "DECIMAL INTEREST", Num(0)), 0) ELSE 0,
   lori_val |-> IF type_code = T_WI THEN LoriVal(lori_lookup, tract, lease_no) ELSE 0,
   operands |-> Operands(row, type_code,
                         IF type_code = T_WI THEN LoriVal(lori_lookup, tract, lease_no) ELSE 0),
   unit_nri |-> TractNri(row) * allocation]

\* A block whose control total sums the TRACT NRI of the rows.
BlockNriControl(tract, owner, info, data, total) ==
  [tract |-> tract,
   owner |-> owner,
   gross_acres |-> info.gross_acres,
   legal_description |-> info.legal_description,
   rows |-> data,
   mi_total |-> SumSeq([i \in 1..Len(data) |-> data[i].tract_nri]),
   total |-> total]

\* One block of a category sheet: a tract block (owner '') or an owner block
\* (tract ''), its data rows and its TOTALS row.
Block(tract, owner, info, data, total) ==
  [tract |-> tract,
   owner |-> owner,
   gross_acres |-> info.gross_acres,
   legal_description |-> info.legal_description,
   rows |-> data,
   mi_total |-> SumSeq([i \in 1..Len(data) |-> data[i].mi_val]),
   total |-> total]

Sheet(t, blocks) == [sheet_name |-> t.sheet_name, type_code |-> t.type_code, blocks |-> blocks]

(***************************************************************************)
(* Tract Aggregation Engine                                                *)
(***************************************************************************)

\* tract_info[tract], from tract_data, the first row of the tract.
InfoOfRow(tract_data) ==
  [legal_description |->
     IF IsNa(Get(tract_data, "Legal Description", NaN)) THEN <<>>
     ELSE PyStr(Get(tract_data, "Legal Description", NaN)),
   gross_acres |-> safe_float(Get(tract_data, "Tract Gross Acres",
                                  Get(tract_data, "NET ACRES", Num(0))), 0)]

\* A tract_info taken from the last row of the tract.
TractInfoOfLast(rows, tract) ==
  InfoOfRow(RowsOfTract(rows, tract)[Len(RowsOfTract(rows, tract))])

TractInfo(rows, tract) == InfoOfRow(RowsOfTract(rows, tract)[1])

\* The data rows of one tract block.
TractData(tract_data, type_code, tract, lori_lookup) ==
  [i \in 1..Len(tract_data) |->
     DataRow(tract_data[i], type_code, PyStr(tract_data[i]["OWNER"]), tract,
             LeaseNo(tract_data[i]), 0, lori_lookup)]

\* One tract block of a category sheet: the info box, the data rows in owner
\* order and the TOTALS row.
TractBlock(rows, type_df, type_code, tract, lori_lookup) ==
  Block(tract, <<>>, TractInfo(rows, tract),
        TractData(SortValues(RowsOfTract(type_df, tract), "OWNER"), type_code, tract, lori_lookup),
        SumNri(RowsOfTract(type_df, tract), 1))

TractBlocks(rows, type_df, type_code, tracts, lori_lookup) ==
  [i \in 1..Len(tracts) |-> TractBlock(rows, type_df, type_code, tracts[i], lori_lookup)]

\* One category sheet of the tract-based workbook.
TractSheet(rows, type_df, t, lori_lookup) ==
  Sheet(t, TractBlocks(rows, type_df, t.type_code,
                       SortedTracts(Unique(TractColumn(type_df))), lori_lookup))

\* The Tract List sheet of the tract-based workbook.
TractList(rows, tracts) ==
  [i \in 1..Len(tracts) |->
     [tract |-> tracts[i],
      legal_description |-> TractInfo(rows, tracts[i]).legal_description,
      gross_acres |-> TractInfo(rows, tracts[i]).gross_acres]]

\* The workbook, all_tracts being sorted(df['TRACT'].unique(), key=tract_sort_key).
TractWorkbook(rows, all_tracts, lori_lookup) ==
  Workbook("tract",
           TractList(rows, all_tracts),
           SelectSeq([i \in 1..4 |->
                        TractSheet(rows, TypeFrame(rows, interest_types[i].type_code),
                                   interest_types[i], lori_lookup)],
                     LAMBDA sh : sh.blocks # <<>>),
           [i \in 1..Len(all_tracts) |-> RecapRow(rows, all_tracts[i], 1)])

\* create_tract_based_workbook(df)
create_tract_based_workbook(df) ==
  TractWorkbook(df.rows, SortedTracts(Unique(TractColumn(df.rows))), BuildLoriLookup(df.rows))

(***************************************************************************)
(* Unit Aggregation Engine                                                 *)
(***************************************************************************)

\* A unit engine that takes every allocation factor for 1.
AllocationOfOne(allocations, tract) == Scale

\* allocations.get(tract, {}).get('allocation', 0)
AllocationOf(allocations, tract) ==
  IF tract \in DOMAIN allocations.tab THEN allocations.tab[tract].allocation ELSE 0

\* A unit engine that keeps the rows of tracts off the allocation table.
KeepAllRows(rows, allocations) == rows

\* df[df['TRACT'].isin(valid_tracts)]
FilterToAllocated(rows, allocations) ==
  SelectSeq(rows, LAMBDA r : r["TRACT"].s \in DOMAIN allocations.tab)

\* The data rows of one owner block.
OwnerData(owner_data, type_code, owner, allocations, lori_lookup) ==
  [i \in 1..Len(owner_data) |->
     DataRow(owner_data[i], type_code, owner, owner_data[i]["TRACT"].s,
             LeaseNo(owner_data[i]), AllocationOf(allocations, owner_data[i]["TRACT"].s),
             lori_lookup)]

\* unit_nri_total of one owner block.
UnitNriTotal(owner_data, allocations) ==
  SumSeq([i \in 1..Len(owner_data) |->
            TractNri(owner_data[i]) * AllocationOf(allocations, owner_data[i]["TRACT"].s)])

\* type_df[type_df['OWNER'] == owner].sort_values('TRACT')
OwnerRowsOf(type_df, owner) ==
  SortValues(SelectSeq(type_df, LAMBDA r : r["OWNER"].s = owner), "TRACT")

\* One owner block of a category sheet: the owner box, the data rows in the
\* order of sort_values('TRACT') and the TOTAL row.
OwnerBlock(type_df, type_code, owner, allocations, lori_lookup) ==
  Block(<<>>, owner, [gross_acres |-> 0, legal_description |-> <<>>],
        OwnerData(OwnerRowsOf(type_df, owner), type_code, owner, allocations, lori_lookup),
        UnitNriTotal(OwnerRowsOf(type_df, owner), allocations))

OwnerBlocks(type_df, type_code, owners, allocations, lori_lookup) ==
  [i \in 1..Len(owners) |-> OwnerBlock(type_df, type_code, owners[i], allocations, lori_lookup)]

\* type_df['OWNER'].unique() without the owners the loop skips.
OwnersOf(type_df) ==
  SelectSeq(Unique([i \in 1..Len(type_df) |-> type_df[i]["OWNER"].s]),
            LAMBDA o : Lower(Strip(o)) \notin LoopPlaceholders)

\* One category sheet of the unit-based workbook, type_df being sorted by
\* ['OWNER', 'TRACT'].
UnitSheet(type_df, t, allocations, lori_lookup) ==
  Sheet(t, OwnerBlocks(type_df, t.type_code, OwnersOf(type_df), allocations, lori_lookup))

\* type_df.sort_values(['OWNER', 'TRACT'])
SortOwnerTract(type_df) == SortValues(SortValues(type_df, "TRACT"), "OWNER")

\* A Unit Recap that leaves the allocation factor out of its sums.
UnitRecapNoFactor(rows, allocations, tracts) ==
  [i \in 1..Len(tracts) |-> RecapRow(rows, tracts[i], Scale)]

\* The rows of the unit-based Unit Recap, tracts being
\* sorted(allocations.keys(), key=tract_sort_key).
UnitRecap(rows, allocations, tracts) ==
  [i \in 1..Len(tracts) |-> RecapRow(rows, tracts[i], allocations.tab[tracts[i]].allocation)]

\* The workbook, rows being the frame filtered to the allocated tracts.  The
\* first sheet is the copy of the schedule's Tract List; a type whose type_df
\* is empty gets no sheet.
UnitWorkbook(rows, allocations, schedule_file, lori_lookup) ==
  Workbook("unit",
           schedule_file.rows,
           SelectSeq([i \in 1..4 |->
                        UnitSheet(SortOwnerTract(TypeFrame(rows, interest_types[i].type_code)),
                                  interest_types[i], allocations, lori_lookup)],
                     LAMBDA sh : TypeFrame(rows, sh.type_code) # <<>>),
           UnitRecap(rows, allocations, SortedTracts(allocations.keys)))

\* A unit-based builder that builds no burden lookup.
UnitWorkbookNoLookup(rows, allocations, schedule_file) ==
  UnitWorkbook(rows, allocations, schedule_file, <<>>)

\* The workbook with the lookup built from the filtered frame.
UnitWorkbookOf(rows, allocations, schedule_file) ==
  UnitWorkbook(rows, allocations, schedule_file, BuildLoriLookup(rows))

\* create_unit_based_workbook(df, allocations, schedule_file): the workbook;
\* total_all is its totals.total_all.
create_unit_based_workbook(df, allocations, schedule_file) ==
  UnitWorkbookOf(FilterToAllocated(df.rows, allocations), allocations, schedule_file)

(***************************************************************************)
(* main(): one run of the script                                           *)
(***************************************************************************)

TRACT_BASED == "Tract-Based Ownership"
UNIT_BASED == "Unit-Based DOI"

\* abs(total_nri - 1.0) < 0.0001, total_nri in units of 1/(Scale*Scale).
ToleranceInverse == 10000

Abs(x) == IF x < 0 THEN 0 - x ELSE x

Verified(total_nri) == Abs(total_nri - Scale2) * ToleranceInverse < Scale2

\* An uploader without a file.
NoFile == [present |-> FALSE, xlsx |-> TRUE, cols |-> {}, rows |-> <<>>]

NoDownload == [offered |-> FALSE, file_name |-> "", wb |-> NoWorkbook]

\* can_generate
can_generate(rt, allocations) ==
  rt = TRACT_BASED \/ (rt = UNIT_BASED /\ allocations.loaded)

\* A unit-based outcome that withholds the workbook when the total is off.
UnitOutcomeStrict(wb) ==
  IF Verified(wb.totals.total_all)
  THEN [message |-> "unit_verified", total_nri |-> wb.totals.total_all,
        download |-> [offered |-> TRUE, file_name |-> "Unit_Based_DOI.xlsx", wb |-> wb]]
  ELSE [message |-> "generate_error", total_nri |-> 0, download |-> NoDownload]

\* The message box and the download button after a unit-based workbook.
UnitOutcome(wb) ==
  [message |-> IF Verified(wb.totals.total_all) THEN "unit_verified" ELSE "unit_warning",
   total_nri |-> wb.totals.total_all,
   download |-> [offered |-> TRUE, file_name |-> "Unit_Based_DOI.xlsx", wb |-> wb]]

TractOutcome(wb) ==
  [message |-> "tract_success", total_nri |-> 0,
   download |-> [offered |-> TRUE, file_name |-> "Tract_Based_Ownership.xlsx", wb |-> wb]]

\* The body of the try block under the Generate button: the workbook, the
\* message box and the download button; an exception of the builder
\* (load_workbook cannot open the schedule) leaves st.error and no download.
Generate(rt, df, allocations, sf) ==
  IF rt = TRACT_BASED THEN TractOutcome(create_tract_based_workbook(df))
  ELSE IF ~sf.xlsx
  THEN [message |-> "generate_error", total_nri |-> 0, download |-> NoDownload]
  ELSE UnitOutcome(create_unit_based_workbook(df, allocations, sf))

Idle == [message |-> "none", total_nri |-> 0, download |-> NoDownload]

\* The page when no ownership workbook is uploaded.
EmptyPage ==
  [df |-> NoFrame, error |-> NoError, allocations |-> NoAllocations,
   alloc_error |-> NoError, out |-> Idle]

\* A main() that goes on after the loader reported an error.
RunLoadedAnyway(rt, sf, clicked, loaded, alloc) ==
  [df |-> loaded.df,
   error |-> NoError,
   allocations |-> alloc.allocations,
   alloc_error |-> alloc.error,
   out |-> IF can_generate(rt, alloc.allocations) /\ clicked
           THEN Generate(rt, loaded.df, alloc.allocations, sf)
           ELSE Idle]

\* main() from "if combined_file:" on, loaded and alloc being the returns of
\* the two loaders.
RunLoaded(rt, sf, clicked, loaded, alloc) ==
  IF loaded.error.kind # "none" THEN [EmptyPage EXCEPT !.error = loaded.error]
  ELSE [df |-> loaded.df,
        error |-> NoError,
        allocations |-> alloc.allocations,
        alloc_error |-> alloc.error,
        out |-> IF can_generate(rt, alloc.allocations) /\ clicked
                THEN Generate(rt, loaded.df, alloc.allocations, sf)
                ELSE Idle]

\* What one run of main() leaves on the page, given the widgets' values and
\* whether this run was caused by a click on Generate Report.
Run(rt, cf, sf, clicked) ==
  IF ~cf.present THEN EmptyPage
  ELSE RunLoaded(rt, sf, clicked, load_combined_data(cf),
                 IF rt = UNIT_BASED /\ sf.present
                 THEN load_tract_allocations(sf)
                 ELSE [allocations |-> NoAllocations, error |-> NoError])

(***************************************************************************)
(* The application as a state machine: every widget interaction re-runs    *)
(* main() from the top.                                                    *)
(***************************************************************************)

VARIABLES
  disk_combined,   \* the ownership workbook the user has (an input)
  disk_schedule,   \* the schedule workbook the user has (an input)
  report_type,     \* the sidebar radio
  combined_file,   \* the first file uploader
  schedule_file,   \* the second file uploader (Unit-Based DOI only)
  page,            \* what the last run of main() computed and showed
  schedule_io      \* the read position of the schedule's handle and where the
                   \* readers of the last run of main() found it

vars ==
  <<disk_combined, disk_schedule, report_type, combined_file, schedule_file, page, schedule_io>>

\* No schedule handle and no reader.
NoIo == [cursor |-> "none", loader_at |-> "none", copy_at |-> "none"]

\* schedule_file.seek(0)
Seek0(position) == "start"

\* Whether a run of main() calls load_tract_allocations(schedule_file), shown
\* being the page of the run.
LoaderReads(rt, cf, sf, shown) ==
  cf.present /\ shown.error.kind = "none" /\ rt = UNIT_BASED /\ sf.present

\* Whether a run of main() calls create_unit_based_workbook, which reads the
\* schedule for the copy of its Tract List.
CopyReads(rt, cf, sf, clicked, shown) ==
  LoaderReads(rt, cf, sf, shown) /\ can_generate(rt, shown.allocations) /\ clicked

\* The schedule handle during one run of main() that finds its read position
\* at 'at': pd.read_excel is given the handle as it stands and leaves the
\* position away from the start; create_unit_based_workbook seeks to 0 before
\* load_workbook reads, which moves the position again.  Both readers open the
\* archive by offsets from its end, so what they read is the whole workbook
\* wherever the position stood.
RunIo(rt, cf, sf, clicked, shown, at) ==
  IF ~sf.present THEN NoIo
  ELSE [cursor |-> IF LoaderReads(rt, cf, sf, shown) THEN "moved" ELSE at,
        loader_at |-> IF LoaderReads(rt, cf, sf, shown) THEN at ELSE "none",
        copy_at |-> IF CopyReads(rt, cf, sf, clicked, shown) THEN Seek0("moved") ELSE "none"]

\* The positions at which a run of main() may find the handle the uploader
\* returns: the start for a file just uploaded; on a later run the uploader
\* returns the handle of the run before, as that run left it, or a fresh one.
HandlePositions(uploaded) ==
  IF uploaded \/ schedule_io.cursor = "none" THEN {"start"} ELSE {"start", schedule_io.cursor}

\* One run of main(): the uploaders hold what the user gave them; the page is
\* what main() makes of that.  uploaded says that the run follows the upload
\* of a schedule.
Rerun(rt, cf, sf, clicked, uploaded) ==
  /\ report_type' = rt
  /\ combined_file' = cf
  /\ schedule_file' = sf
  /\ page' = Run(rt, cf, sf, clicked)
  /\ \E at \in HandlePositions(uploaded) :
       schedule_io' = RunIo(rt, cf, sf, clicked, Run(rt, cf, sf, clicked), at)
  /\ UNCHANGED <<disk_combined, disk_schedule>>

\* The state after construction, for ownership workbooks CF and schedule
\* workbooks SF.
InitWith(CF, SF) ==
  /\ disk_combined \in CF
  /\ disk_schedule \in SF
  /\ report_type = TRACT_BASED
  /\ combined_file = NoFile
  /\ schedule_file = NoFile
  /\ page = Run(TRACT_BASED, NoFile, NoFile, FALSE)
  /\ schedule_io = NoIo

\* st.radio: the schedule uploader exists only for Unit-Based DOI.
SelectReportType ==
  \E rt \in {TRACT_BASED, UNIT_BASED} :
    /\ rt # report_type
    /\ Rerun(rt, combined_file, NoFile, FALSE, FALSE)

UploadCombined ==
  /\ ~combined_file.present
  /\ Rerun(report_type, [disk_combined EXCEPT !.present = TRUE], schedule_file, FALSE, FALSE)

RemoveCombined ==
  /\ combined_file.present
  /\ Rerun(report_type, NoFile, schedule_file, FALSE, FALSE)

UploadSchedule ==
  /\ report_type = UNIT_BASED
  /\ ~schedule_file.present
  /\ Rerun(report_type, combined_file, [disk_schedule EXCEPT !.present = TRUE], FALSE, TRUE)

RemoveSchedule ==
  /\ schedule_file.present
  /\ Rerun(report_type, combined_file, NoFile, FALSE, FALSE)

\* Whether the last run put the Generate Report button on the page.
ButtonShown ==
  /\ combined_file.present
  /\ page.error.kind = "none"
  /\ can_generate(report_type, page.allocations)

\* st.button: a click re-runs main() with the button reading True.
ClickGenerate ==
  /\ ButtonShown
  /\ Rerun(report_type, combined_file, schedule_file, TRUE, FALSE)

Next ==
  \/ SelectReportType
  \/ UploadCombined
  \/ RemoveCombined
  \/ UploadSchedule
  \/ RemoveSchedule
  \/ ClickGenerate

(***************************************************************************)
(* Inputs: the workbooks the specifications draw from                      *)
(***************************************************************************)

\* An ownership workbook has at most MaxRows rows; the schedules of
\* SpecSchedule have at most MaxScheduleRows rows; the datasets of SpecOrder
\* have at most MaxTracts rows, those of SpecLeases at most MaxLeaseRows.
MaxRows == 2
MaxScheduleRows == 3
MaxTracts == 3
MaxLeaseRows == 3

X_Al == <<"A", "l">>
X_Bo == <<"B", "o">>
X_L == <<"L">>
X_None_dot == <<"N", "o", "n", "e", ".">>
X_NONE_sp == <<" ", "N", "O", "N", "E", " ">>
X_blank == <<" ", " ">>
X_1 == <<"1">>
X_2 == <<"2">>
X_10 == <<"1", "0">>
X_Tract == <<"T", "r", "a", "c", "t">>
X_TRACT_sp == <<" ", "T", "R", "A", "C", "T", " ">>
X_Total == <<"T", "o", "t", "a", "l", " ", "U", "n", "i", "t", " ", "A", "c", "r", "e", "s">>

\* Every sequence of at most n elements of U.
SeqUpTo(U, n) == UNION {[1..k -> U] : k \in 0..n}

\* One row of an ownership sheet that has the columns cols.
OwnershipRow(cols, owner, type, tract, nri, lease, royalty) ==
  [c \in cols |->
     CASE c = "OWNER" -> owner
       [] c = "TYPE" -> type
       [] c = "TRACT" -> tract
       [] c = "TRACT NRI" -> nri
       [] c = "LEASE NO." -> lease
       [] c = "LEASE ROYALTY" -> royalty]

BaseCols == {"OWNER", "TYPE", "TRACT", "TRACT NRI"}

LeaseCols == BaseCols \cup {"LEASE NO.", "LEASE ROYALTY"}

\* An ownership workbook on the user's disk.
OwnershipFile(cols, rows) == [present |-> FALSE, xlsx |-> TRUE, cols |-> cols, rows |-> rows]

\* The ownership workbooks with the columns cols and at most n rows of U.
OwnershipFiles(cols, U, n) == {OwnershipFile(cols, r) : r \in SeqUpTo(U, n)}

\* One row of a schedule's Tract List sheet: tract, legal description, acres,
\* allocation.
ScheduleRow(tract, allocation) == <<tract, Str(X_L), Num(5 * Scale), allocation>>

\* A schedule workbook on the user's disk; xlsx = FALSE is an .xls workbook,
\* which pandas reads and openpyxl's load_workbook refuses.
ScheduleFile(xlsx, rows) == [present |-> FALSE, xlsx |-> xlsx, cols |-> {}, rows |-> rows]

HeaderRow == ScheduleRow(Str(X_Tract), Str(<<"A">>))

TotalRow == ScheduleRow(Str(X_Total), NaN)

\* The schedule with the given allocation factors for tracts 1 and 2.
Schedule12(xlsx, a1, a2) ==
  ScheduleFile(xlsx, << HeaderRow, ScheduleRow(Str(X_1), Num(a1)),
                        ScheduleRow(Str(X_2), Num(a2)), TotalRow >>)

\* The schedule with the given allocation factor for tract 1 alone.
Schedule1(a1) == ScheduleFile(TRUE, << HeaderRow, ScheduleRow(Str(X_1), Num(a1)), TotalRow >>)

(***************************************************************************)
(* SpecOwners: datasets that mix real owners and placeholder owners        *)
(***************************************************************************)

OwnerRows ==
  {OwnershipRow(BaseCols, o, Str(t), Str(X_1), Num(Scale \div 2), NaN, NaN) :
     o \in {Str(X_Al), Str(X_None_dot), Str(X_NONE_sp), Str(X_blank), NaN},
     t \in {T_MI, T_NPRI, T_ORI, T_WI}}

InitOwners == InitWith(OwnershipFiles(BaseCols, OwnerRows, MaxRows), {Schedule12(TRUE, 72, 48)})

SpecOwners == InitOwners /\ [][Next]_vars

(***************************************************************************)
(* SpecDataset: sheets that lack columns, and raw tract cells              *)
(***************************************************************************)

\* Raw cells of the TRACT column: whole numbers as pandas gives them, padded
\* texts, a fraction, blank texts and the empty cell.
RawTracts ==
  {Str(X_1), Str(<<"1", ".", "0">>), Str(<<" ", "2", " ">>), Str(<<"1", ".", "5">>),
   Str(<<"-", "0", ".", "0">>), Str(<<" ", "O", "r", "a", "m", " ", "1", " ">>),
   Str(X_blank), Str(<<>>), NaN}

ColumnSets ==
  {BaseCols, BaseCols \ {"OWNER"}, BaseCols \ {"TYPE"}, BaseCols \ {"TRACT"}, {"TRACT NRI"}}

DatasetFiles ==
  UNION {OwnershipFiles(cols, {OwnershipRow(cols, Str(X_Al), Str(T_WI), t, Num(Scale), NaN, NaN) :
                                 t \in RawTracts}, MaxRows) : cols \in ColumnSets}

InitDataset == InitWith(DatasetFiles, {Schedule12(TRUE, 72, 48)})

SpecDataset == InitDataset /\ [][Next]_vars

(***************************************************************************)
(* SpecSchedule: Tract List sheets with and without an allocation region   *)
(***************************************************************************)

ScheduleRows ==
  {HeaderRow,
   ScheduleRow(Str(X_TRACT_sp), NaN),
   ScheduleRow(Str(X_1), Num(72)),
   ScheduleRow(Str(X_2), Num(48)),
   ScheduleRow(Str(<<"1", ".", "0">>), Num(Scale)),
   ScheduleRow(Str(X_blank), Num(Scale)),
   ScheduleRow(NaN, NaN),
   TotalRow}

ScheduleFiles == {ScheduleFile(TRUE, r) : r \in SeqUpTo(ScheduleRows, MaxScheduleRows)}

OneWiRow(tract) == OwnershipRow(BaseCols, Str(X_Al), Str(T_WI), Str(tract), Num(Scale), NaN, NaN)

InitSchedule == InitWith({OwnershipFile(BaseCols, <<OneWiRow(X_1), OneWiRow(X_2)>>)}, ScheduleFiles)

SpecSchedule == InitSchedule /\ [][Next]_vars

(***************************************************************************)
(* SpecUnit: datasets against allocation tables                            *)
(***************************************************************************)

UnitRows ==
  {OwnershipRow(LeaseCols, Str(X_Al), Str(T_WI), Str(tr), Num(nri), Str(X_L), NaN) :
     tr \in {X_1, X_2}, nri \in {Scale, Scale - 1}}
  \cup
  {OwnershipRow(LeaseCols, Str(X_Bo), Str(T_MI), Str(tr), Num(Scale \div 2), Str(X_L), Num(30)) :
     tr \in {X_1, X_2}}

UnitSchedules ==
  {Schedule12(TRUE, 72, 48), Schedule12(TRUE, 60, 60), Schedule12(FALSE, 72, 48),
   Schedule1(Scale), Schedule1(Scale + 1)}

InitUnit == InitWith(OwnershipFiles(LeaseCols, UnitRows, MaxRows), UnitSchedules)

SpecUnit == InitUnit /\ [][Next]_vars

(***************************************************************************)
(* SpecOrder: datasets whose tracts come in every order                    *)
(***************************************************************************)

TractIds ==
  {X_1, X_2, X_10, <<"1", ".", "5">>, <<"1", ".", "5", "0">>,
   <<"O", "r", "a", "m", " ", "2">>, <<"O", "r", "a", "m", " ", "1", "0">>,
   <<"o", "r", "a", "m", " ", "2">>}

InitOrder ==
  InitWith(OwnershipFiles(BaseCols, {OneWiRow(t) : t \in TractIds}, MaxTracts),
           {Schedule12(TRUE, 72, 48)})

SpecOrder == InitOrder /\ [][Next]_vars

(***************************************************************************)
(* SpecBlocks: several owners on several tracts, in every order            *)
(***************************************************************************)

X_al == <<"a", "l">>
X_Oram_2 == <<"O", "r", "a", "m", " ", "2">>

BlockRows ==
  {OwnershipRow(BaseCols, Str(o), Str(T_WI), Str(tr), Num(Scale \div 4), NaN, NaN) :
     o \in {X_Al, X_Bo, X_al}, tr \in {X_2, X_10, X_Oram_2}}

\* The schedule that gives tracts 2, 10 and 'Oram 2' a third of the unit each.
ScheduleThirds ==
  ScheduleFile(TRUE, << HeaderRow, ScheduleRow(Str(X_2), Num(Scale \div 3)),
                        ScheduleRow(Str(X_10), Num(Scale \div 3)),
                        ScheduleRow(Str(X_Oram_2), Num(Scale \div 3)), TotalRow >>)

InitBlocks == InitWith(OwnershipFiles(BaseCols, BlockRows, MaxTracts), {ScheduleThirds})

SpecBlocks == InitBlocks /\ [][Next]_vars

(***************************************************************************)
(* SpecKeys: tract cells that read as whole numbers, infinities and texts  *)
(***************************************************************************)

X_1e0 == <<"1", "e", "0">>
X_sp_inf == <<" ", "i", "n", "f">>
X_neg_INF == <<"-", "I", "N", "F">>
X_Oram == <<"O", "r", "a", "m">>

\* Cells of a tract column: whole numbers in several spellings, a number
\* beyond every float, texts that Python reads as infinity, a name, the empty
\* cell.
TractKeyCells ==
  {Str(X_1), Num(Scale), Str(X_1e0), Str(<<"1", "e", "9", "9", "9">>), Str(X_sp_inf),
   Str(X_neg_INF), Str(X_Oram), NaN}

KeyFiles ==
  OwnershipFiles(BaseCols,
                 {OwnershipRow(BaseCols, Str(X_Al), Str(T_WI), c, Num(Scale \div 2), NaN, NaN) :
                    c \in TractKeyCells},
                 MaxRows)

KeySchedules ==
  {ScheduleFile(TRUE, << HeaderRow, ScheduleRow(c, Num(Scale)), TotalRow >>) : c \in TractKeyCells}

InitKeys == InitWith(KeyFiles, KeySchedules)

SpecKeys == InitKeys /\ [][Next]_vars

(***************************************************************************)
(* SpecFloats: numeric cells that are missing, blank, texts and numbers    *)
(***************************************************************************)

\* TRACT NRI cells: the empty cell, a blank text, a text that is no number,
\* numbers as texts, a float and a date.
FloatCells ==
  {NaN, Str(<<" ", " ">>), Str(<<"a", "b", "c">>), Str(<<"3", ".", "5">>),
   Str(<<" ", ".", "5", " ">>), Str(<<"-", "1">>), Num(Scale \div 4), Obj(<<"2", "0", "2", "0">>)}

FloatFiles ==
  OwnershipFiles(BaseCols,
                 {OwnershipRow(BaseCols, Str(X_Al), Str(T_WI), Str(X_1), c, NaN, NaN) :
                    c \in FloatCells},
                 MaxRows)

\* The acres and allocation cells of a schedule: floats that are not finite,
\* texts that are no number, numbers with a sign, a point or an exponent, the
\* empty text.
SchedulePairs ==
  {<<Str(<<"i", "n", "f">>), Str(<<"a", "b", "c">>)>>,
   <<Str(<<"-", "I", "n", "f">>), Str(<<" ", ".", "5", " ">>)>>,
   <<Str(<<"N", "a", "N">>), Str(<<".">>)>>,
   <<NaN, Str(<<"1", ".", "2", ".", "3">>)>>,
   <<Str(<<"1", "e">>), Str(<<"+", "1", ".">>)>>,
   <<Obj(<<"2", "0", "2", "0">>), Str(<<"5", "E", "-", "1">>)>>,
   <<Str(<<>>), Num(Scale)>>}

\* Schedules of one tract whose acres and allocation cells vary.
FloatSchedules ==
  {ScheduleFile(TRUE, << HeaderRow, <<Str(X_1), Str(X_L), q[1], q[2]>>, TotalRow >>) :
     q \in SchedulePairs}

InitFloats == InitWith(FloatFiles, FloatSchedules)

SpecFloats == InitFloats /\ [][Next]_vars

(***************************************************************************)
(* SpecInterests: MI rows with their interest, royalty and burden cells    *)
(***************************************************************************)

InterestCols == BaseCols \cup {"DECIMAL INTEREST", "LEASE ROYALTY", "NPRI BURDENS"}

\* One row with the columns InterestCols.
InterestRow(owner, type, tract, decimal, royalty, burdens, nri) ==
  [c \in InterestCols |->
     CASE c = "OWNER" -> owner
       [] c = "TYPE" -> type
       [] c = "TRACT" -> tract
       [] c = "TRACT NRI" -> nri
       [] c = "DECIMAL INTEREST" -> decimal
       [] c = "LEASE ROYALTY" -> royalty
       [] c = "NPRI BURDENS" -> burdens]

X_half == <<"0", ".", "5">>

\* MI rows of Al on tracts 1 and 2 whose four numeric cells vary one against
\* the other, an MI row of a placeholder owner and a WI row on each tract.
InterestRows ==
  {InterestRow(Str(X_Al), Str(T_MI), Str(tr), q[1], q[2], q[3], q[4]) :
     tr \in {X_1, X_2},
     q \in {<<Str(X_half), Num(15), Num(0), Num(15)>>,
            <<Str(X_half), NaN, Num(12), Num(3)>>,
            <<Num(30), Num(15), Num(0), Num(3)>>,
            <<NaN, Num(15), Num(12), Num(15)>>}}
    \cup {InterestRow(Str(o), Str(t), Str(tr), Num(30), Num(15), Num(0), Num(3)) :
            o \in {X_None_dot, X_Al}, t \in {T_MI, T_WI}, tr \in {X_1, X_2}}

InitInterests ==
  InitWith(OwnershipFiles(InterestCols, InterestRows, MaxRows), {Schedule12(TRUE, 72, 48)})

SpecInterests == InitInterests /\ [][Next]_vars

(***************************************************************************)
(* SpecTypes: rows of the four categories and of other types               *)
(***************************************************************************)

\* TYPE cells: two categories, a type that is none of the four, a category
\* in lower case and the empty cell.
TypeCells == {Str(T_MI), Str(T_WI), Str(<<"X", "X">>), Str(<<"w", "i">>), NaN}

TypeRows ==
  {OwnershipRow(BaseCols, Str(X_Al), t, Str(tr), Num(Scale \div 2), NaN, NaN) :
     t \in TypeCells, tr \in {X_1, X_2}}

InitTypes == InitWith(OwnershipFiles(BaseCols, TypeRows, MaxRows), {Schedule1(Scale)})

SpecTypes == InitTypes /\ [][Next]_vars

(***************************************************************************)
(* SpecLeases: MI rows with lease numbers and royalties, and WI rows       *)
(***************************************************************************)

X_A == <<"A">>
X_B == <<"B">>

\* MI rows of tract 1 under the lease 'A', the lease 'default' and no lease,
\* at two royalty rates; an MI row of tract 2; WI rows of tract 1 under the
\* leases 'A' and 'B' and without lease; a WI row of tract 2.
LeaseRows ==
  {OwnershipRow(LeaseCols, Str(X_Al), Str(T_MI), Str(X_1), Num(12), lease, Num(royalty)) :
     lease \in {Str(X_A), Str(T_default), NaN}, royalty \in {15, 30}}
    \cup {OwnershipRow(LeaseCols, Str(X_Al), Str(T_MI), Str(X_2), Num(12), Str(X_A), Num(45))}
    \cup {OwnershipRow(LeaseCols, Str(X_Bo), Str(T_WI), Str(X_1), Num(12), lease, NaN) :
            lease \in {Str(X_A), Str(X_B), NaN}}
    \cup {OwnershipRow(LeaseCols, Str(X_Bo), Str(T_WI), Str(X_2), Num(12), NaN, NaN)}

InitLeases ==
  InitWith(OwnershipFiles(LeaseCols, LeaseRows, MaxLeaseRows), {Schedule12(TRUE, 72, 48)})

SpecLeases == InitLeases /\ [][Next]_vars

(***************************************************************************)
(* SpecInfo: tracts whose rows differ in legal description and acres       *)
(***************************************************************************)

InfoCols == BaseCols \cup {"Legal Description", "Tract Gross Acres"}

NetCols == BaseCols \cup {"NET ACRES"}

\* One WI row of Al with the columns cols.
InfoRow(cols, tract, legal, acres) ==
  [c \in cols |->
     CASE c = "OWNER" -> Str(X_Al)
       [] c = "TYPE" -> Str(T_WI)
       [] c = "TRACT" -> tract
       [] c = "TRACT NRI" -> Num(Scale \div 2)
       [] c = "Legal Description" -> legal
       [] c = "Tract Gross Acres" -> acres
       [] c = "NET ACRES" -> acres]

\* Rows of tracts 1 and 2 with three legal descriptions (one empty) and three
\* acreages (one a text); and rows that have NET ACRES but neither of the two
\* tract columns.
InfoFiles ==
  OwnershipFiles(InfoCols,
                 {InfoRow(InfoCols, Str(tr), legal, acres) :
                    tr \in {X_1, X_2},
                    legal \in {Str(X_L), Str(X_A), NaN},
                    acres \in {Num(5 * Scale), Str(<<"3", ".", "5">>), NaN}},
                 MaxRows)
    \cup OwnershipFiles(NetCols,
                        {InfoRow(NetCols, Str(tr), NaN, acres) :
                           tr \in {X_1, X_2}, acres \in {Num(Scale), Num(2 * Scale)}},
                        MaxRows)

InitInfo == InitWith(InfoFiles, {Schedule12(TRUE, 72, 48)})

SpecInfo == InitInfo /\ [][Next]_vars

(***************************************************************************)
(* SpecLookups: one dataset under both builders, with tracts on and off    *)
(* the allocation table                                                    *)
(***************************************************************************)

\* MI rows of tract 1 under the lease 'A', no lease and the lease 'default'
\* at three rates, an MI row of tract 2; WI rows of tract 1 under the leases
\* 'A' and 'B' and without lease, a WI row of tract 2.
LookupRows ==
  {OwnershipRow(LeaseCols, Str(X_Al), Str(T_MI), Str(X_1), Num(12), q[1], Num(q[2])) :
     q \in {<<Str(X_A), 15>>, <<NaN, 30>>, <<Str(T_default), 45>>}}
    \cup {OwnershipRow(LeaseCols, Str(X_Al), Str(T_MI), Str(X_2), Num(12), Str(X_A), Num(45))}
    \cup {OwnershipRow(LeaseCols, Str(X_Bo), Str(T_WI), Str(X_1), Num(24), lease, NaN) :
            lease \in {Str(X_A), Str(X_B), NaN}}
    \cup {OwnershipRow(LeaseCols, Str(X_Bo), Str(T_WI), Str(X_2), Num(36), NaN, NaN)}

\* Schedules that allocate tract 1 alone, tract 2 alone, and both.
LookupSchedules ==
  {Schedule1(Scale),
   ScheduleFile(TRUE, << HeaderRow, ScheduleRow(Str(X_2), Num(Scale)), TotalRow >>),
   Schedule12(TRUE, 72, 48)}

InitLookups ==
  InitWith(OwnershipFiles(LeaseCols, LookupRows, MaxLeaseRows), LookupSchedules)

SpecLookups == InitLookups /\ [][Next]_vars

(***************************************************************************)
(* Properties of the reports                                               *)
(***************************************************************************)

\* The workbook behind the download button.
Report == page.out.download.wb

Offered == page.out.download.offered

\* Whether an owner, trimmed and compared case-insensitively, is a
\* placeholder.
IsPlaceholder(owner) ==
  Lower(Strip(owner)) \in {<<"n", "o", "n", "e", ".">>, <<"n", "o", "n", "e">>, <<"n", "a", "n">>, <<>>}

\* The rows of the loaded dataset whose owner is real.
RealRows == SelectSeq(page.df.rows, LAMBDA r : ~IsPlaceholder(PyStr(r["OWNER"])))

\* The allocation factor a report applies to a tract: the table's factor in
\* the unit-based report (0 off the table), 1 in the tract-based report.
FactorOf(tract) ==
  IF Report.kind = "unit" THEN
    IF tract \in DOMAIN page.allocations.tab THEN page.allocations.tab[tract].allocation ELSE 0
  ELSE 1

\* The sum of TRACT NRI times the factor over the rows sel.
Contribution(sel) == SumSeq([i \in 1..Len(sel) |-> TractNri(sel[i]) * FactorOf(sel[i]["TRACT"].s)])

\* The real rows of one type that belong to a block: those of its tract in
\* the tract-based report, those of its owner in the unit-based report.
RealRowsOfBlock(type_code, b) ==
  SelectSeq(RealRows, LAMBDA r :
    /\ IsType(r, type_code)
    /\ IF Report.kind = "tract" THEN r["TRACT"].s = b.tract ELSE PyStr(r["OWNER"]) = b.owner)

\* C1: in both reports no row whose owner is 'none.', 'none', blank or 'nan'
\* (trimmed, case-insensitive) is a data row of a category sheet, and every
\* TOTALS / TOTAL row of a block is the sum over the block's real rows alone.
C1_NoPlaceholderOnSheets ==
  Offered =>
    \A i \in 1..Len(Report.sheets) : \A j \in 1..Len(Report.sheets[i].blocks) :
      /\ \A k \in 1..Len(Report.sheets[i].blocks[j].rows) :
           ~IsPlaceholder(Report.sheets[i].blocks[j].rows[k].owner)
      /\ Len(Report.sheets[i].blocks[j].rows)
           = Len(RealRowsOfBlock(Report.sheets[i].type_code, Report.sheets[i].blocks[j]))
      /\ Report.sheets[i].blocks[j].total
           = Contribution(RealRowsOfBlock(Report.sheets[i].type_code, Report.sheets[i].blocks[j]))

\* A unit-based report of a dataset that has a real row and an empty-owner row
\* of the same type, with a sheet that shows a block.
C1_Witness ==
  /\ Offered
  /\ Report.kind = "unit"
  /\ \E i \in 1..Len(Report.sheets) : Report.sheets[i].blocks # <<>>
  /\ \E i, j \in 1..Len(page.df.rows) :
       /\ IsNa(page.df.rows[i]["OWNER"])
       /\ ~IsPlaceholder(PyStr(page.df.rows[j]["OWNER"]))
       /\ page.df.rows[i]["TYPE"] = page.df.rows[j]["TYPE"]

\* The contribution of the real rows of one type and tract.
RealContribution(type_code, tract) ==
  Contribution(SelectSeq(RealRows, LAMBDA r : IsType(r, type_code) /\ r["TRACT"].s = tract))

\* C2: in both reports a row with a placeholder owner contributes nothing to
\* a per-tract Unit Recap value of MI, NPRI, ORI or WI, to a category column
\* total or to the grand total: every recap value is the contribution of the
\* real rows alone.
C2_PlaceholdersOutOfRecap ==
  Offered =>
    /\ \A i \in 1..Len(Report.recap) :
         /\ Report.recap[i].MI = RealContribution(T_MI, Report.recap[i].tract)
         /\ Report.recap[i].NPRI = RealContribution(T_NPRI, Report.recap[i].tract)
         /\ Report.recap[i].ORI = RealContribution(T_ORI, Report.recap[i].tract)
         /\ Report.recap[i].WI = RealContribution(T_WI, Report.recap[i].tract)
    /\ Report.totals.total_all =
         SumSeq([i \in 1..Len(Report.recap) |->
                   RealContribution(T_MI, Report.recap[i].tract)
                   + RealContribution(T_NPRI, Report.recap[i].tract)
                   + RealContribution(T_ORI, Report.recap[i].tract)
                   + RealContribution(T_WI, Report.recap[i].tract)])

\* Whether a total, in units of 1/(Scale*Scale), is within 0.0001 of 1.0.
WithinTolerance(total) ==
  /\ (total - Scale2) * 10000 < Scale2
  /\ (Scale2 - total) * 10000 < Scale2

\* C3: when unit-based generation completes, the download is offered whether
\* or not the unit grand total is 1: within 0.0001 of 1.0 the outcome is the
\* verified success, otherwise it is the warning that carries the total, with
\* the same complete workbook; an error outcome of a unit-based run never
\* comes from the total (only from a schedule load_workbook cannot open).
C3_WarningStillDelivers ==
  report_type = UNIT_BASED /\ page.out.message # "none" =>
    IF schedule_file.xlsx
    THEN /\ Offered
         /\ Report = create_unit_based_workbook(page.df, page.allocations, schedule_file)
         /\ page.out.total_nri = Report.totals.total_all
         /\ page.out.message =
              IF WithinTolerance(Report.totals.total_all) THEN "unit_verified" ELSE "unit_warning"
    ELSE page.out.message = "generate_error" /\ ~Offered

\* A unit-based run that ended in the warning, with the workbook offered.
C3_Witness ==
  /\ page.out.message = "unit_warning"
  /\ Offered
  /\ Report.kind = "unit"
  /\ Report.totals.total_all # Scale2
  /\ Report.sheets # <<>>

\* C4: while the uploaded ownership sheet lacks one of OWNER, TYPE, TRACT, the
\* loader's outcome is the error that names the missing columns and no
\* dataset, and no report of either type is generated or offered: nothing is
\* on the page and the Generate button is not there to click.
C4_MissingColumnBlocks ==
  combined_file.present /\ ~({"OWNER", "TYPE", "TRACT"} \subseteq combined_file.cols) =>
    /\ page.error.kind = "missing_columns"
    /\ page.error.missing = {"OWNER", "TYPE", "TRACT"} \ combined_file.cols
    /\ ~page.df.loaded
    /\ page.out.message = "none"
    /\ ~Offered
    /\ ~ButtonShown

\* A unit-based session with a loaded allocation table and an ownership sheet
\* without its TRACT column.
C4_Witness ==
  /\ combined_file.present
  /\ combined_file.cols = {"OWNER", "TYPE", "TRACT NRI"}
  /\ Len(combined_file.rows) > 0
  /\ report_type = UNIT_BASED
  /\ schedule_file.present
  /\ page.error.kind = "missing_columns"

\* The first cell of a schedule row as text.
FirstCell(row) == PyStr(row[1])

\* The rows of a schedule whose first cell, trimmed, is 'tract' in any case.
MarkerRows(rows) ==
  {i \in 1..Len(rows) : Lower(Strip(FirstCell(rows[i]))) = <<"t", "r", "a", "c", "t">>}

\* The rows after row m at which the allocation region ends: an empty first
\* cell or 'Total Unit Acres' in any case.
EndRows(rows, m) ==
  {i \in (m + 1)..Len(rows) :
     IsNa(rows[i][1]) \/ Lower(Strip(FirstCell(rows[i]))) = Lower(T_TOTAL_UNIT_ACRES)}

\* The rows of the allocation region that follows marker row m.
Region(rows, m) ==
  {i \in (m + 1)..Len(rows) : \A e \in EndRows(rows, m) : i < e}

\* Whether the region after the first marker row gives an allocation entry.
RegionYields(rows) ==
  /\ MarkerRows(rows) # {}
  /\ \E i \in Region(rows, Min(MarkerRows(rows))) : normalize_tract(rows[i][1]) # <<>>

\* Whether the loaders ran on an uploaded schedule in this run.
ScheduleRead ==
  /\ report_type = UNIT_BASED
  /\ schedule_file.present
  /\ combined_file.present
  /\ page.error.kind = "none"

\* C5 (amended): if the schedule has no row whose first cell, trimmed, equals
\* 'tract' case-insensitively, or the region after the first such row yields
\* no allocation entry, the loader returns an error and no allocation table
\* (and otherwise a table); while no table is loaded the unit-based report is
\* never generated, and the tract-based report can still be generated.
C5_NoRegionBlocksUnit ==
  /\ ScheduleRead =>
       IF RegionYields(schedule_file.rows)
       THEN page.alloc_error.kind = "none" /\ page.allocations.loaded
       ELSE page.alloc_error.kind # "none" /\ ~page.allocations.loaded
  /\ report_type = UNIT_BASED /\ ~page.allocations.loaded =>
       page.out.message = "none" /\ ~Offered /\ ~ButtonShown
  /\ report_type = TRACT_BASED /\ combined_file.present /\ page.error.kind = "none" =>
       ButtonShown

\* A unit-based session whose schedule has a marker row and data rows after
\* the end of the region only, so that the region yields nothing.
C5_Witness ==
  /\ ScheduleRead
  /\ MarkerRows(schedule_file.rows) # {}
  /\ ~RegionYields(schedule_file.rows)
  /\ Len(schedule_file.rows) = 3
  /\ page.alloc_error.kind = "no_allocations"

\* C5 as stated: a schedule without a row whose first cell equals 'tract'
\* case-insensitively (untrimmed) gets the loader's error.
C5_ExactMarkerOnly ==
  ScheduleRead
  /\ ~(\E i \in 1..Len(schedule_file.rows) :
         Lower(FirstCell(schedule_file.rows[i])) = <<"t", "r", "a", "c", "t">>)
  => page.alloc_error.kind # "none" /\ ~page.allocations.loaded

\* The rows of the uploaded sheet whose tract does not normalize to ''.
KeptRows ==
  {i \in 1..Len(combined_file.rows) : normalize_tract(combined_file.rows[i]["TRACT"]) # <<>>}

\* The k-th of the kept rows, in the order of the sheet.
KthKept(k) == CHOOSE i \in KeptRows : Cardinality({j \in KeptRows : j <= i}) = k

\* C6: after a successful load every record has a non-empty canonical tract:
\* the rows whose tract normalizes to '' are gone, and every other row is
\* kept, in order, with its tract replaced by its normalized form.
C6_TractsCanonical ==
  page.df.loaded =>
    /\ Len(page.df.rows) = Cardinality(KeptRows)
    /\ \A k \in 1..Len(page.df.rows) :
         /\ page.df.rows[k]["TRACT"].k = "str"
         /\ page.df.rows[k]["TRACT"].s # <<>>
         /\ page.df.rows[k]["TRACT"].s = normalize_tract(combined_file.rows[KthKept(k)]["TRACT"])
         /\ \A c \in combined_file.cols \ {"TRACT"} :
              page.df.rows[k][c] = combined_file.rows[KthKept(k)][c]

\* A load that discarded a blank-tract row and rewrote '1.0' as '1'.
C6_Witness ==
  /\ page.df.loaded
  /\ Len(combined_file.rows) = 2
  /\ combined_file.rows[1]["TRACT"] = Str(X_blank)
  /\ combined_file.rows[2]["TRACT"] = Str(<<"1", ".", "0">>)
  /\ Len(page.df.rows) = 1
  /\ page.df.rows[1]["TRACT"].s = X_1

\* Whether the page offers a unit-based workbook.
UnitOffered == Offered /\ Report.kind = "unit"

\* Whether a tract is a key of the loaded allocation table.
Allocated(tract) == tract \in DOMAIN page.allocations.tab

\* The dataset without the rows of tracts off the allocation table.
AllocatedFrame ==
  [loaded |-> TRUE, rows |-> SelectSeq(page.df.rows, LAMBDA r : Allocated(r["TRACT"].s))]

\* C7: in the unit-based report a row whose tract is not a key of the
\* allocation table is dropped from all output: no data row and no recap row
\* is of such a tract, and the whole workbook (sheets, owner totals, resolved
\* LORI rates, Unit Recap, grand total) is the workbook of the dataset without
\* those rows.
C7_UnallocatedDropped ==
  UnitOffered =>
    /\ \A i \in 1..Len(Report.sheets) : \A j \in 1..Len(Report.sheets[i].blocks) :
         \A k \in 1..Len(Report.sheets[i].blocks[j].rows) :
           Allocated(Report.sheets[i].blocks[j].rows[k].tract)
    /\ \A i \in 1..Len(Report.recap) : Allocated(Report.recap[i].tract)
    /\ Report = create_unit_based_workbook(AllocatedFrame, page.allocations, schedule_file)

\* A unit-based report of a dataset with a WI row on the table's only tract
\* and an MI row of a tract off the table.
C7_Witness ==
  /\ UnitOffered
  /\ DOMAIN page.allocations.tab = {X_1}
  /\ Len(page.df.rows) = 2
  /\ page.df.rows[1]["TRACT"].s = X_2
  /\ IsType(page.df.rows[1], T_MI)
  /\ page.df.rows[2]["TRACT"].s = X_1
  /\ IsType(page.df.rows[2], T_WI)
  /\ Len(Report.sheets) = 1

\* Every tract of the allocation table carries exactly one row of the
\* dataset, and the rows are WI rows of one real owner with TRACT NRI 1.
OneFullWiRowPerTract ==
  /\ page.allocations.loaded
  /\ \A t \in DOMAIN page.allocations.tab :
       Cardinality({i \in 1..Len(page.df.rows) : page.df.rows[i]["TRACT"].s = t}) = 1
  /\ \A i \in 1..Len(page.df.rows) :
       /\ Allocated(page.df.rows[i]["TRACT"].s)
       /\ IsType(page.df.rows[i], T_WI)
       /\ page.df.rows[i]["OWNER"] = page.df.rows[1]["OWNER"]
       /\ ~IsPlaceholder(PyStr(page.df.rows[i]["OWNER"]))
       /\ TractNri(page.df.rows[i]) = One

\* The sum of the allocation factors of the table.
FactorSum == SumSeq([i \in 1..Len(page.allocations.keys) |->
                       page.allocations.tab[page.allocations.keys[i]].allocation])

\* C8: with one WI row of a single real owner and TRACT NRI 1 on every tract
\* of the allocation table, each tract has its data row, the row's unit NRI is
\* the tract's allocation factor, and when the factors sum to 1 the unit grand
\* total is within 0.0001 of 1 and the outcome is the verified one.
C8_UnitNriIsAllocation ==
  UnitOffered /\ OneFullWiRowPerTract =>
    /\ Len(Report.sheets) = 1
    /\ Len(Report.sheets[1].blocks) = 1
    /\ Len(Report.sheets[1].blocks[1].rows) = Cardinality(DOMAIN page.allocations.tab)
    /\ \A k \in 1..Len(Report.sheets[1].blocks[1].rows) :
         Report.sheets[1].blocks[1].rows[k].unit_nri =
           One * page.allocations.tab[Report.sheets[1].blocks[1].rows[k].tract].allocation
    /\ FactorSum = One =>
         /\ WithinTolerance(Report.totals.total_all)
         /\ page.out.message = "unit_verified"

\* The example: allocations 0.6 and 0.4, unit NRI 0.6 and 0.4.
C8_Witness ==
  /\ UnitOffered
  /\ OneFullWiRowPerTract
  /\ Len(page.df.rows) = 2
  /\ page.allocations.tab[X_1].allocation = 72
  /\ page.allocations.tab[X_2].allocation = 48
  /\ Report.totals.total_all = Scale2

\* The tracts of the loaded dataset.
DatasetTracts == {page.df.rows[i]["TRACT"].s : i \in 1..Len(page.df.rows)}

\* The dataset has N >= 1 tracts, all of them on the allocation table, and
\* every allocation factor is 1/N.
EqualFactors ==
  /\ page.allocations.loaded
  /\ DatasetTracts # {}
  /\ DatasetTracts \subseteq DOMAIN page.allocations.tab
  /\ \A t \in DOMAIN page.allocations.tab :
       page.allocations.tab[t].allocation * Cardinality(DatasetTracts) = One

\* The grand total of the tract-based report of the loaded dataset.
TractGrandTotal == create_tract_based_workbook(page.df).totals.total_all

\* C9 (amended): with N tracts, all on the allocation table, and every factor
\* 1/N, the unit grand total is the tract-based grand total divided by N.
C9_UnitTotalIsTractTotalOverN ==
  UnitOffered /\ EqualFactors =>
    Report.totals.total_all * Cardinality(DatasetTracts) = TractGrandTotal * Scale

\* Two tracts with factors 1/2 each and a tract-based grand total above 0.
C9_Witness ==
  /\ UnitOffered
  /\ EqualFactors
  /\ Cardinality(DatasetTracts) = 2
  /\ TractGrandTotal > 0

\* C9 as stated: with every factor 1/N the unit grand total equals the
\* tract-based grand total.
C9_UnitTotalIsTractTotal ==
  UnitOffered /\ EqualFactors => Report.totals.total_all = TractGrandTotal * Scale

\* The TRACT column of the Tract List sheet of the offered workbook.
ListedTracts == [i \in 1..Len(Report.tract_list) |-> Report.tract_list[i].tract]

\* Whether a tract id parses as a pure number.
IsNumeric(t) == ParseFloat(t).ok

\* The lowercase prefix and the trailing numeric suffix (0 without trailing
\* digits) of a non-numeric id.
PrefixOf(t) == Lower(SubSeq(t, 1, Len(t) - TrailingDigits(t)))

SuffixOf(t) == DigitsValue(SubSeq(t, Len(t) - TrailingDigits(t) + 1, Len(t)))

\* Whether id a may stand before id b under the ordering policy: a number
\* before a text, numbers by magnitude, texts by lowercase prefix and then by
\* suffix.
MayPrecede(a, b) ==
  IF IsNumeric(a)
  THEN IsNumeric(b) => ParseFloat(a).num * ParseFloat(b).den <= ParseFloat(b).num * ParseFloat(a).den
  ELSE /\ ~IsNumeric(b)
       /\ \/ StrLess(PrefixOf(a), PrefixOf(b))
          \/ PrefixOf(a) = PrefixOf(b) /\ SuffixOf(a) <= SuffixOf(b)

\* Whether the policy ranks two ids the same.
SameRank(a, b) == MayPrecede(a, b) /\ MayPrecede(b, a)

\* The rearrangements of a sequence.
Rearrangements(seq) ==
  {[i \in 1..Len(seq) |-> seq[q[i]]] :
     q \in {f \in [1..Len(seq) -> 1..Len(seq)] : \A i, j \in 1..Len(seq) : f[i] = f[j] => i = j}}

TractOffered == Offered /\ Report.kind = "tract"

C11_OwnerRowsInPolicyOrder ==
  UnitOffered =>
    \A i \in 1..Len(Report.sheets) : \A j \in 1..Len(Report.sheets[i].blocks) :
      \A a, b \in 1..Len(Report.sheets[i].blocks[j].rows) :
        a < b => MayPrecede(Report.sheets[i].blocks[j].rows[a].tract,
                            Report.sheets[i].blocks[j].rows[b].tract)

\* The tracts of the real rows of one type.
RealTractsOf(type_code) ==
  {RealRows[i]["TRACT"].s : i \in {k \in 1..Len(RealRows) : IsType(RealRows[k], type_code)}}

\* C12: in the tract-based report the tract blocks of every category sheet
\* stand in the Tract Ordering Policy's order, every tract of the category has
\* exactly one block, and the data rows of a block are in ascending order of
\* the owner names as given (by code point, so 'Bo' before 'al').
C12_BlocksAndOwnersOrdered ==
  TractOffered =>
    \A i \in 1..Len(Report.sheets) :
      /\ \A j, k \in 1..Len(Report.sheets[i].blocks) :
           j < k => /\ MayPrecede(Report.sheets[i].blocks[j].tract, Report.sheets[i].blocks[k].tract)
                    /\ Report.sheets[i].blocks[j].tract # Report.sheets[i].blocks[k].tract
      /\ {Report.sheets[i].blocks[j].tract : j \in 1..Len(Report.sheets[i].blocks)}
           = RealTractsOf(Report.sheets[i].type_code)
      /\ \A j \in 1..Len(Report.sheets[i].blocks) :
           \A a, b \in 1..Len(Report.sheets[i].blocks[j].rows) :
             a < b => ~StrLess(Report.sheets[i].blocks[j].rows[b].owner,
                               Report.sheets[i].blocks[j].rows[a].owner)

\* A dataset that lists Al on 10, al on 2, Bo on 2 and a WI sheet that reads
\* tract 2 (Bo, al), tract 10 (Al).
C12_Witness ==
  /\ TractOffered
  /\ Len(page.df.rows) = 3
  /\ page.df.rows[1]["TRACT"].s = X_10
  /\ page.df.rows[2]["OWNER"].s = X_al
  /\ page.df.rows[3]["OWNER"].s = X_Bo
  /\ Len(Report.sheets) = 1
  /\ Len(Report.sheets[1].blocks) = 2
  /\ Report.sheets[1].blocks[1].tract = X_2
  /\ Len(Report.sheets[1].blocks[1].rows) = 2
  /\ Report.sheets[1].blocks[1].rows[1].owner = X_Bo
  /\ Report.sheets[1].blocks[1].rows[2].owner = X_al
  /\ Report.sheets[1].blocks[2].tract = X_10

\* C13 as stated: normalize_tract returns a key for every cell, so that a
\* sheet with the required columns always loads, each of its tracts being ''
\* or the canonical key of its cell, and a schedule with a marker row is
\* always read to its end.
C13_EveryTractCellNormalizes ==
  /\ combined_file.present /\ required_cols \subseteq combined_file.cols =>
       /\ page.error.kind = "none"
       /\ page.df.loaded
  /\ ScheduleRead /\ MarkerRows(schedule_file.rows) # {}
     => page.alloc_error.kind \in {"none", "no_allocations"}

\* The value the contract of safe_float gives a cell: the default for a
\* missing cell, a blank text, a text that is no number and a value that is
\* neither text nor number; else the number the text or the cell denotes (a
\* float that is not finite is itself).
ContractFloat(c, default) ==
  IF c.k = "nan" \/ c.k = "obj" THEN default
  ELSE IF c.k = "num" THEN c.v
  ELSE IF \A i \in 1..Len(c.s) : c.s[i] = " " THEN default
  ELSE IF ~ParseFloat(c.s).ok THEN default
  ELSE IF ParseFloat(c.s).special = "nan" THEN "nan"
  ELSE IF ParseFloat(c.s).special = "inf" THEN (IF ParseFloat(c.s).num < 0 THEN "-inf" ELSE "inf")
  ELSE (ParseFloat(c.s).num * Scale) \div ParseFloat(c.s).den

\* The numeric cells of the two workbooks on the disk.
DiskFloatCells ==
  {disk_combined.rows[i]["TRACT NRI"] : i \in 1..Len(disk_combined.rows)}
    \cup {disk_schedule.rows[i][3] : i \in 1..Len(disk_schedule.rows)}
    \cup {disk_schedule.rows[i][4] : i \in 1..Len(disk_schedule.rows)}

\* C14: safe_float raises on no cell and returns the default of the call for
\* a missing, blank or unparseable cell and the parsed number otherwise; so
\* no numeric cell stops a load, the allocation table holds the contract's
\* value of the acres and allocation cells, and the tract-based report shows
\* the contract's value of every TRACT NRI cell.
C14_SafeFloatContract ==
  /\ \A c \in DiskFloatCells : \A default \in {0, One} :
       safe_float(c, default) = ContractFloat(c, default)
  /\ combined_file.present => page.error.kind = "none" /\ page.df.loaded
  /\ ScheduleRead =>
       /\ page.alloc_error.kind = "none"
       /\ page.allocations.tab[X_1].acres = ContractFloat(schedule_file.rows[2][3], 0)
       /\ page.allocations.tab[X_1].allocation = ContractFloat(schedule_file.rows[2][4], 0)
  /\ TractOffered /\ Len(page.df.rows) > 0 =>
       /\ Len(Report.sheets) = 1
       /\ Len(Report.sheets[1].blocks) = 1
       /\ Len(Report.sheets[1].blocks[1].rows) = Len(page.df.rows)
       /\ \A i \in 1..Len(page.df.rows) :
            Report.sheets[1].blocks[1].rows[i].tract_nri
              = ContractFloat(combined_file.rows[i]["TRACT NRI"], 0)

\* A schedule whose acres cell reads as infinity and whose allocation cell is
\* no number is loaded, and the unit-based report of a dataset with a blank
\* and a texted number is offered.
C14_Witness ==
  /\ ScheduleRead
  /\ UnitOffered
  /\ schedule_file.rows[2][3] = Str(<<"i", "n", "f">>)
  /\ schedule_file.rows[2][4] = Str(<<"a", "b", "c">>)
  /\ page.allocations.loaded
  /\ page.allocations.tab[X_1].allocation = 0
  /\ Len(combined_file.rows) = 2
  /\ combined_file.rows[1]["TRACT NRI"] = Str(<<" ", " ">>)
  /\ combined_file.rows[2]["TRACT NRI"] = Str(<<" ", ".", "5", " ">>)

\* The DECIMAL INTEREST of a row as a number: 0 for an empty cell.
DecimalInterest(r) == ContractFloat(r["DECIMAL INTEREST"], 0)

RECURSIVE SumOfDecimalInterest(_)
SumOfDecimalInterest(rows) ==
  IF rows = <<>> THEN 0 ELSE DecimalInterest(rows[1]) + SumOfDecimalInterest(Tail(rows))

\* C15: in the tract-based report the control total of every tract block of
\* the MI (LORI) sheet is the sum of DECIMAL INTEREST over the MI rows of the
\* tract that the sheet shows (the rows of real owners), whatever their LEASE
\* ROYALTY, NPRI BURDENS and TRACT NRI.
C15_MiControlTotal ==
  TractOffered =>
    \A i \in 1..Len(Report.sheets) :
      Report.sheets[i].type_code = T_MI =>
        \A j \in 1..Len(Report.sheets[i].blocks) :
          Report.sheets[i].blocks[j].mi_total
            = SumOfDecimalInterest(RealRowsOfBlock(T_MI, Report.sheets[i].blocks[j]))

\* Tract 1 has two MI rows with DECIMAL INTEREST '0.5' and 0.25 whose TRACT NRI
\* sums to something else; its control total is 0.75.
C15_Witness ==
  /\ TractOffered
  /\ Len(page.df.rows) = 2
  /\ page.df.rows[1]["DECIMAL INTEREST"] = Str(X_half)
  /\ page.df.rows[1]["LEASE ROYALTY"] = NaN
  /\ page.df.rows[2]["DECIMAL INTEREST"] = Num(30)
  /\ Len(Report.sheets) = 1
  /\ Report.sheets[1].type_code = T_MI
  /\ Len(Report.sheets[1].blocks) = 1
  /\ Len(Report.sheets[1].blocks[1].rows) = 2
  /\ Report.sheets[1].blocks[1].mi_total = 90
  /\ Report.sheets[1].blocks[1].total = 6

\* The loaded dataset without the rows whose type is none of MI, NPRI, ORI, WI.
KnownTypeFrame ==
  [loaded |-> TRUE,
   rows |-> SelectSeq(page.df.rows, LAMBDA r :
              \E i \in 1..4 : IsType(r, interest_types[i].type_code))]

\* C16 as stated: a row whose type is none of the four categories leaves no
\* trace in either report: the workbook is the one the dataset without these
\* rows gives, and every tract of the Tract List and of the Unit Recap of the
\* tract-based report is the tract of a row of a known type.
C16_UnknownTypesLeaveNoTrace ==
  /\ TractOffered =>
       /\ Report = create_tract_based_workbook(KnownTypeFrame)
       /\ \A i \in 1..Len(Report.tract_list) :
            \E k \in 1..Len(KnownTypeFrame.rows) :
              KnownTypeFrame.rows[k]["TRACT"].s = Report.tract_list[i].tract
       /\ \A i \in 1..Len(Report.recap) :
            \E k \in 1..Len(KnownTypeFrame.rows) :
              KnownTypeFrame.rows[k]["TRACT"].s = Report.recap[i].tract
  /\ UnitOffered =>
       Report = create_unit_based_workbook(KnownTypeFrame, page.allocations, schedule_file)

\* Whether the TRACT NRI a data row shows is the result of its category's
\* chain on the three operands the row shows, all in units of 1/Scale.
ChainHolds(type_code, r) ==
  IF type_code = T_MI
  THEN r.operands[1] * r.operands[2] - r.operands[3] * Scale = r.tract_nri * Scale
  ELSE IF type_code = T_WI
  THEN (Scale - r.operands[1] - r.operands[2]) * r.operands[3] = r.tract_nri * Scale
  ELSE r.operands[1] * r.operands[2] * r.operands[3] = r.tract_nri * Scale * Scale

\* C17 as stated: on every category sheet of both reports the TRACT NRI of a
\* data row is the value of the category's chain on the operands of the row.
C17_TractNriIsChainValue ==
  Offered =>
    \A i \in 1..Len(Report.sheets) : \A j \in 1..Len(Report.sheets[i].blocks) :
      \A k \in 1..Len(Report.sheets[i].blocks[j].rows) :
        ChainHolds(Report.sheets[i].type_code, Report.sheets[i].blocks[j].rows[k])

\* The sum of the TOTAL rows of the owner blocks of one sheet.
SheetTotal(sh) == SumSeq([j \in 1..Len(sh.blocks) |-> sh.blocks[j].total])

\* C18 as stated: the grand total of the unit-based report, the value that is
\* compared with 1.0, is the sum of the TOTAL rows of all owner blocks of the
\* category sheets, and the TOTAL of an owner block is the sum of the UNIT NRI
\* of its data rows.
C18_GrandTotalIsSumOfOwnerTotals ==
  UnitOffered =>
    /\ page.out.total_nri = Report.totals.total_all
    /\ Report.totals.total_all
         = SumSeq([i \in 1..Len(Report.sheets) |-> SheetTotal(Report.sheets[i])])
    /\ \A i \in 1..Len(Report.sheets) : \A j \in 1..Len(Report.sheets[i].blocks) :
         Report.sheets[i].blocks[j].total
           = SumSeq([k \in 1..Len(Report.sheets[i].blocks[j].rows) |->
                       Report.sheets[i].blocks[j].rows[k].unit_nri])

\* The MI rows of a tract in the loaded dataset, in dataset order.
MiRowsOf(tract) ==
  SelectSeq(page.df.rows, LAMBDA r : IsType(r, T_MI) /\ r["TRACT"].s = tract)

\* The LEASE ROYALTY of a row as a number.
RoyaltyOf(r) == ContractFloat(r["LEASE ROYALTY"], 0)

\* C19 as stated: while the MI rows of a tract are processed in dataset
\* order, the 'default' rate of the tract is, after the first row and after
\* every later row, the LEASE ROYALTY of the first row.
C19_DefaultSetOnce ==
  Offered =>
    \A i \in 1..Len(page.df.rows) :
      \A n \in 1..Len(MiRowsOf(page.df.rows[i]["TRACT"].s)) :
        /\ T_default \in FillLori(SubSeq(MiRowsOf(page.df.rows[i]["TRACT"].s), 1, n), EmptyDict).has
        /\ FillLori(SubSeq(MiRowsOf(page.df.rows[i]["TRACT"].s), 1, n), EmptyDict).fn[T_default]
             = RoyaltyOf(MiRowsOf(page.df.rows[i]["TRACT"].s)[1])

\* The lease identifier of a row: none ('') for an empty cell.
LeaseId(r) == IF IsNa(r["LEASE NO."]) THEN <<>> ELSE Strip(PyStr(r["LEASE NO."]))

\* The rates the claim allows a WI row of the tract under the lease: the
\* rates of the tract's MI rows under this lease if there are any, else the
\* rate of the tract's first MI row, else 0.
AllowedLori(tract, lease_no) ==
  IF MiRowsOf(tract) = <<>> THEN {0}
  ELSE IF lease_no # <<>> /\ \E k \in 1..Len(MiRowsOf(tract)) : LeaseId(MiRowsOf(tract)[k]) = lease_no
  THEN {RoyaltyOf(MiRowsOf(tract)[k]) :
          k \in {x \in 1..Len(MiRowsOf(tract)) : LeaseId(MiRowsOf(tract)[x]) = lease_no}}
  ELSE {RoyaltyOf(MiRowsOf(tract)[1])}

\* C20 as stated: the LORI a WI row shows is the rate of an MI row of its
\* tract under its lease, else the rate of the tract's first MI row, else 0.
C20_LoriOfWiRow ==
  Offered =>
    \A i \in 1..Len(Report.sheets) :
      Report.sheets[i].type_code = T_WI =>
        \A j \in 1..Len(Report.sheets[i].blocks) :
          \A k \in 1..Len(Report.sheets[i].blocks[j].rows) :
            Report.sheets[i].blocks[j].rows[k].lori_val
              \in AllowedLori(Report.sheets[i].blocks[j].rows[k].tract,
                              Report.sheets[i].blocks[j].rows[k].lease_no)

FirstRowOf(tract) ==
  page.df.rows[Min({i \in 1..Len(page.df.rows) : page.df.rows[i]["TRACT"].s = tract})]

\* The legal description a row carries: '' without the column or the cell.
LegalOf(r) ==
  IF "Legal Description" \notin DOMAIN r \/ r["Legal Description"].k = "nan" THEN <<>>
  ELSE r["Legal Description"].s

\* The gross acres a row carries: its Tract Gross Acres, or its NET ACRES in
\* a dataset without that column, or 0.
GrossAcresOf(r) ==
  IF "Tract Gross Acres" \in DOMAIN r THEN ContractFloat(r["Tract Gross Acres"], 0)
  ELSE IF "NET ACRES" \in DOMAIN r THEN ContractFloat(r["NET ACRES"], 0)
  ELSE 0

\* C22: the Tract List of the tract-based report has exactly one row per
\* tract of the loaded dataset, and the legal description and gross acres of
\* the row, and of the info box of every block of the tract, are those of the
\* first record of the tract in dataset order, whatever later records carry.
C22_TractInfoFromFirstRecord ==
  TractOffered =>
    /\ {Report.tract_list[i].tract : i \in 1..Len(Report.tract_list)}
         = {page.df.rows[i]["TRACT"].s : i \in 1..Len(page.df.rows)}
    /\ \A i, j \in 1..Len(Report.tract_list) :
         i # j => Report.tract_list[i].tract # Report.tract_list[j].tract
    /\ \A i \in 1..Len(Report.tract_list) :
         /\ Report.tract_list[i].legal_description
              = LegalOf(FirstRowOf(Report.tract_list[i].tract))
         /\ Report.tract_list[i].gross_acres
              = GrossAcresOf(FirstRowOf(Report.tract_list[i].tract))
    /\ \A i \in 1..Len(Report.sheets) : \A j \in 1..Len(Report.sheets[i].blocks) :
         /\ Report.sheets[i].blocks[j].legal_description
              = LegalOf(FirstRowOf(Report.sheets[i].blocks[j].tract))
         /\ Report.sheets[i].blocks[j].gross_acres
              = GrossAcresOf(FirstRowOf(Report.sheets[i].blocks[j].tract))

\* Tract 1 has two records, the first with legal description 'A' and 3.5
\* acres, the second with 'L' and 5 acres; the Tract List has the one row
\* (1, 'A', 3.5).
C22_Witness ==
  /\ TractOffered
  /\ Len(page.df.rows) = 2
  /\ page.df.rows[1]["TRACT"].s = X_1
  /\ page.df.rows[2]["TRACT"].s = X_1
  /\ "Legal Description" \in DOMAIN page.df.rows[2]
  /\ page.df.rows[2]["Legal Description"] = Str(X_L)
  /\ page.df.rows[2]["Tract Gross Acres"] = Num(5 * Scale)
  /\ Len(Report.tract_list) = 1
  /\ Report.tract_list[1].legal_description = X_A
  /\ Report.tract_list[1].gross_acres = 420

\* The rows of the region after the first marker row that give the tract.
RegionRowsOf(rows, tract) ==
  {i \in Region(rows, Min(MarkerRows(rows))) : normalize_tract(rows[i][1]) = tract}

\* The entry the contract gives a row of the region: its allocation, acres and
\* legal description.
ContractEntry(row) ==
  [allocation |-> ContractFloat(row[4], 0),
   acres |-> ContractFloat(row[3], 0),
   legal_description |-> IF row[2].k = "nan" THEN <<>> ELSE PyStr(row[2])]

\* C23 (amended): the keys of the allocation table are exactly the non-empty
\* normalized tracts of the rows strictly between the first marker row and
\* the first later row whose first cell is empty or, trimmed, 'Total Unit
\* Acres' in any case; a first cell of blanks gives no entry and does not end
\* the region; each entry is that of the last row of the region with its
\* tract; and a region with such a row always gives a table.
C23_TableIsRegion ==
  /\ ScheduleRead /\ RegionYields(schedule_file.rows) => page.allocations.loaded
  /\ ScheduleRead /\ page.allocations.loaded =>
    /\ MarkerRows(schedule_file.rows) # {}
    /\ DOMAIN page.allocations.tab
         = {normalize_tract(schedule_file.rows[i][1]) :
              i \in Region(schedule_file.rows, Min(MarkerRows(schedule_file.rows)))} \ {<<>>}
    /\ \A t \in DOMAIN page.allocations.tab :
         page.allocations.tab[t]
           = ContractEntry(schedule_file.rows[Max(RegionRowsOf(schedule_file.rows, t))])

\* The schedule Tract, '1', '1.0' with the factors 0.6 and 1: one entry, for
\* tract 1, with the factor of the later row.
C23_Witness ==
  /\ ScheduleRead
  /\ page.allocations.loaded
  /\ Len(schedule_file.rows) = 3
  /\ schedule_file.rows[2][1] = Str(X_1)
  /\ schedule_file.rows[3][1] = Str(<<"1", ".", "0">>)
  /\ DOMAIN page.allocations.tab = {X_1}
  /\ page.allocations.tab[X_1].allocation = Scale

\* The rows after row m whose first cell is blank (empty or of blanks only)
\* or equals 'Total Unit Acres' in any case.
BlankEndRows(rows, m) ==
  {i \in (m + 1)..Len(rows) :
     \/ IsNa(rows[i][1])
     \/ \A k \in 1..Len(FirstCell(rows[i])) : FirstCell(rows[i])[k] = " "
     \/ Lower(FirstCell(rows[i])) = Lower(T_TOTAL_UNIT_ACRES)}

\* C23 as stated: the table has exactly the tracts of the rows between the
\* first marker row and the first later row whose first cell is blank or
\* equals 'Total Unit Acres'.
C23_RegionEndsAtBlankCell ==
  ScheduleRead /\ page.allocations.loaded =>
    DOMAIN page.allocations.tab
      = {normalize_tract(schedule_file.rows[i][1]) :
           i \in {j \in (Min(MarkerRows(schedule_file.rows)) + 1)..Len(schedule_file.rows) :
                    \A e \in BlankEndRows(schedule_file.rows, Min(MarkerRows(schedule_file.rows))) :
                      j < e}}

\* What the WI sheet of a workbook shows of its rows: owner, tract, lease,
\* LORI and TRACT NRI of every data row.
WiRowsShown(wb) ==
  {[owner |-> wb.sheets[i].blocks[j].rows[k].owner,
    tract |-> wb.sheets[i].blocks[j].rows[k].tract,
    lease_no |-> wb.sheets[i].blocks[j].rows[k].lease_no,
    lori_val |-> wb.sheets[i].blocks[j].rows[k].lori_val,
    tract_nri |-> wb.sheets[i].blocks[j].rows[k].tract_nri] :
     <<i, j, k>> \in {x \in (1..4) \X (1..MaxLeaseRows + 1) \X (1..MaxLeaseRows + 1) :
                        /\ x[1] <= Len(wb.sheets)
                        /\ wb.sheets[x[1]].type_code = T_WI
                        /\ x[2] <= Len(wb.sheets[x[1]].blocks)
                        /\ x[3] <= Len(wb.sheets[x[1]].blocks[x[2]].rows)}}

\* C24: the WI rows of the unit-based report are the WI rows of the
\* tract-based report of the same dataset whose tract is on the allocation
\* table, each with the same LORI and the same TRACT NRI.
C24_LookupsAgree ==
  UnitOffered =>
    WiRowsShown(Report)
      = {r \in WiRowsShown(create_tract_based_workbook(page.df)) : Allocated(r.tract)}

\* A dataset with an MI row at 0.125 under lease 'A' and a WI row under 'A' on
\* tract 1 and a WI row on tract 2, which the schedule leaves out: the unit
\* report shows the one WI row, with LORI 0.125.
C24_Witness ==
  /\ UnitOffered
  /\ ~Allocated(X_2)
  /\ Len(page.df.rows) = 3
  /\ IsType(page.df.rows[1], T_MI)
  /\ page.df.rows[3]["TRACT"].s = X_2
  /\ IsType(page.df.rows[3], T_WI)
  /\ WiRowsShown(Report)
       = {[owner |-> X_Bo, tract |-> X_1, lease_no |-> X_A, lori_val |-> 15, tract_nri |-> 24]}

====
